---- MODULE Spec2Model ----
(***************************************************************************)
(* Ingestion and indexing pipeline of the USYD web crawler / RAG service:  *)
(* scrape-job state machine (services/scraper.py) and vector-database      *)
(* creation, build, orphan reclaim and deletion (services/vector_store.py, *)
(* app.py).                                                                *)
(*                                                                         *)
(* Environment: the relational store commits every statement it is given;  *)
(* page fetches, snapshot file writes, embedding calls, index creation,    *)
(* index deletion and batch uploads may each fail.                         *)
(***************************************************************************)
EXTENDS Integers, Sequences, FiniteSets, TLC

\* ---------------------------------------------------------------- bounds
MaxUsers == 2
MaxJobs == 2
MaxExecs == 2
MaxDbs == 1
MaxRuns == 2
MaxResults == 2
MaxSitePages == 4
MaxDepthArg == 2
MaxPagesArg == 3
MaxListed == 4
MaxChars == 5
MaxChunkArg == 3
MaxTexts == 25
MaxOrphans == 2
MaxPolls == 3         \* status polls recorded during one build
MaxCreates == 2       \* create requests running side by side
MaxFiles == 2         \* files in one document-upload request

Users == 1..MaxUsers
\* cleanup_unused_indexes(user_id=None): None and 0 are both falsy in `if user_id:`
NoUser == 0
NoJob == 0

\* ------------------------------------------------------- program constants
IndexLimit == 15
UploadBatchSize == 100
ChunkSize == 1000
ChunkOverlap == 200
EmbedBatchSize == 10

VARIABLES
  jobs,        \* scraping_jobs table: job id -> row
  snapshot,    \* data/raw/{job_id}/scraped_data.json: job id -> content records
  nextJob,     \* number of job ids handed out so far + 1 (uuid4 is always fresh)
  execs,       \* background threads started by start_scraping_job
  docjobs,     \* document_jobs table: document job id -> row
  docsnap,     \* data/raw/{doc_job_id}/scraped_data.json of document jobs
  dbs,         \* vector_databases table: db id -> row
  indexes,     \* names of the indexes held by the search backend
  nextDb,      \* number of db ids handed out so far + 1
  creqs,       \* CreateVectorDatabase calls: db id -> position in the handler
  builds,      \* background build threads: db id -> thread state
  reindex,     \* an index fed by repeated runs of the indexing step (SpecIndex)
  polled,      \* the last response of GET /api/scrape/status/<job_id> (SpecPoll)
  crawl,       \* local state of one deep or sitemap crawl (SpecCrawl, SpecSitemap)
  chunked,     \* input and output of one chunker call (SpecChunk)
  embedded,    \* input, provider calls and output of one embedding call (SpecEmbed)
  answered,    \* the last outcome of a request on a job or database (SpecAsk)
  polls,       \* the answers of GET /api/vector-dbs/<db_id>/status so far (SpecWatch)
  uploads      \* one document-upload request and the blob container (SpecUpload)

jobVars == <<jobs, snapshot, nextJob, execs>>
dbVars == <<docjobs, docsnap, dbs, indexes, nextDb, creqs, builds>>
\* the state of the specifications of single procedures; the job and database
\* operations leave it alone
procVars == <<reindex, polled, crawl, chunked, embedded, answered, polls, uploads>>
vars == <<jobs, snapshot, nextJob, execs, docjobs, docsnap, dbs, indexes,
          nextDb, creqs, builds, reindex, polled,
          crawl, chunked, embedded, answered, polls, uploads>>

\* ------------------------------------------------------------- helpers
Remove(f, k) == [x \in DOMAIN f \ {k} |-> f[x]]
Put(f, k, v) == [x \in DOMAIN f \cup {k} |-> IF x = k THEN v ELSE f[x]]
Min(a, b) == IF a < b THEN a ELSE b

ScrapingTypes == {"single", "deep", "sitemap"}
\* a request may carry any string as type; "bogus" stands for every other one
RequestTypes == ScrapingTypes \cup {"bogus"}

\* content of a crawl result / snapshot: one entry per page, the entry is the
\* token length of the page's text (0: empty or whitespace-only content)
SnapContents == { <<1500, 0, 5>>, <<81000, 0, 5>> }

\* no index under repeated runs
NoReindex == [hybrid |-> FALSE, results |-> <<>>, store |-> <<>>, runs |-> <<>>]

\* no crawl under way, no chunker call made
NoCrawl == [mode |-> "none"]
NoChunks == [kind |-> "none", text |-> <<>>, chunks |-> <<>>]

\* no embedding call made, no request answered
NoEmbedding == [pc |-> "none"]
NoAnswer == [op |-> "none", id |-> 0, user |-> 0, found |-> FALSE, ret |-> FALSE,
             code |-> 0, results |-> <<>>]

\* no document-upload request made
NoUploads == [pc |-> "none"]

\* no status request answered yet
NoResponse == [code |-> 0, status |-> "", progress |-> 0, message |-> "",
               result_summary |-> [kind |-> "null", progress |-> 0, message |-> ""]]

\* ============================================================ scrape jobs

\* _update_job_status: UPDATE ... WHERE id = job_id (no row: nothing changes)
NullSummary == [kind |-> "null", progress |-> 0, message |-> ""]
UpdateJobStatus(js, j, status, progress, message, result) ==
  IF j \notin DOMAIN js THEN js
  ELSE [js EXCEPT ![j].status = status,
                  ![j].result_summary =
                     IF status \in {"completed", "failed"}
                     THEN IF result THEN [kind |-> "result", progress |-> 0, message |-> ""]
                          ELSE NullSummary
                     ELSE [kind |-> "progress", progress |-> progress,
                           message |-> message]]

\* create_scraping_job: INSERT with status 'pending'
CreateJob(u, t) ==
  /\ nextJob <= MaxJobs
  /\ jobs' = Put(jobs, nextJob,
                 [user_id |-> u, scraping_type |-> t, status |-> "pending",
                  result_summary |-> NullSummary])
  /\ nextJob' = nextJob + 1
  /\ UNCHANGED <<snapshot, execs>>
  /\ UNCHANGED dbVars
  /\ UNCHANGED procVars

\* start_scraping_job: a new daemon thread per call
StartJob(j) ==
  /\ Len(execs) < MaxExecs
  /\ execs' = Append(execs, [job |-> j, pc |-> "load", type |-> "none",
                             result |-> <<>>])
  /\ UNCHANGED <<jobs, snapshot, nextJob>>
  /\ UNCHANGED dbVars
  /\ UNCHANGED procVars

\* _process_scraping_job_async, SELECT of the job and first status write
ExecLoad(e) ==
  /\ execs[e].pc = "load"
  /\ LET j == execs[e].job IN
     IF j \notin DOMAIN jobs
     THEN /\ jobs' = UpdateJobStatus(UpdateJobStatus(jobs, j, "failed", 0, "not found", FALSE),
                                     j, "failed", 0, "Error", FALSE)
          /\ execs' = [execs EXCEPT ![e].pc = "done"]
     ELSE /\ jobs' = UpdateJobStatus(jobs, j, "running", 10, "Starting scraping process", FALSE)
          /\ execs' = [execs EXCEPT ![e].pc = "dispatch",
                                    ![e].type = jobs[j].scraping_type]
  /\ UNCHANGED <<snapshot, nextJob>>
  /\ UNCHANGED dbVars
  /\ UNCHANGED procVars

\* _process_scraping_job_async, the branch on scraping_type
ExecDispatch(e) ==
  /\ execs[e].pc = "dispatch"
  /\ LET j == execs[e].job IN
     IF execs[e].type \in ScrapingTypes
     THEN /\ jobs' = UpdateJobStatus(jobs, j, "running", 30, "Scraping", FALSE)
          /\ execs' = [execs EXCEPT ![e].pc = "crawl"]
     ELSE /\ jobs' = UpdateJobStatus(jobs, j, "failed", 0, "Error: Unknown scraping type", FALSE)
          /\ execs' = [execs EXCEPT ![e].pc = "done"]
  /\ UNCHANGED <<snapshot, nextJob>>
  /\ UNCHANGED dbVars
  /\ UNCHANGED procVars

\* the crawl returns its envelope; success is decided by the site
ExecCrawl(e, ok, content) ==
  /\ execs[e].pc = "crawl"
  /\ LET j == execs[e].job IN
     IF ok
     THEN /\ jobs' = UpdateJobStatus(jobs, j, "running", 80, "Saving scraped data", FALSE)
          /\ execs' = [execs EXCEPT ![e].pc = "save", ![e].result = content]
     ELSE /\ jobs' = UpdateJobStatus(jobs, j, "failed", 0, "Scraping failed", FALSE)
          /\ execs' = [execs EXCEPT ![e].pc = "done"]
  /\ UNCHANGED <<snapshot, nextJob>>
  /\ UNCHANGED dbVars
  /\ UNCHANGED procVars

\* the save with a failed write logged and the run going on to its last write
ExecSaveIgnoreFailure(e, ok) ==
  /\ execs[e].pc = "save"
  /\ LET j == execs[e].job IN
     /\ snapshot' = IF ok THEN Put(snapshot, j, execs[e].result) ELSE snapshot
     /\ execs' = [execs EXCEPT ![e].pc = "complete"]
     /\ UNCHANGED jobs
  /\ UNCHANGED nextJob
  /\ UNCHANGED dbVars
  /\ UNCHANGED procVars

\* os.makedirs + json.dump of the result; a failed write raises
ExecSave(e, ok) ==
  /\ execs[e].pc = "save"
  /\ LET j == execs[e].job IN
     IF ok
     THEN /\ snapshot' = Put(snapshot, j, execs[e].result)
          /\ execs' = [execs EXCEPT ![e].pc = "complete"]
          /\ UNCHANGED jobs
     ELSE /\ jobs' = UpdateJobStatus(jobs, j, "failed", 0, "Error", FALSE)
          /\ execs' = [execs EXCEPT ![e].pc = "done"]
          /\ UNCHANGED snapshot
  /\ UNCHANGED nextJob
  /\ UNCHANGED dbVars
  /\ UNCHANGED procVars

\* final status write of a successful run
ExecComplete(e) ==
  /\ execs[e].pc = "complete"
  /\ jobs' = UpdateJobStatus(jobs, execs[e].job, "completed", 100,
                             "Scraping completed successfully", TRUE)
  /\ execs' = [execs EXCEPT ![e].pc = "done"]
  /\ UNCHANGED <<snapshot, nextJob>>
  /\ UNCHANGED dbVars
  /\ UNCHANGED procVars

\* delete_scraping_job: row removed, then shutil.rmtree of the data directory
\* (rmtree failure is logged and the call still returns True); on an unknown id
\* or for another user it returns False and changes nothing
DeleteJob(j, u, rm) ==
  /\ j \in DOMAIN jobs
  /\ jobs[j].user_id = u
  /\ jobs' = Remove(jobs, j)
  /\ snapshot' = IF rm THEN Remove(snapshot, j) ELSE snapshot
  /\ UNCHANGED <<nextJob, execs>>
  /\ UNCHANGED dbVars
  /\ UNCHANGED procVars

InitJob ==
  /\ jobs = <<>>
  /\ snapshot = <<>>
  /\ nextJob = 1
  /\ execs = <<>>
  /\ docjobs = <<>>
  /\ docsnap = <<>>
  /\ dbs = <<>>
  /\ indexes = {}
  /\ nextDb = 1
  /\ creqs = <<>>
  /\ builds = <<>>
  /\ reindex = NoReindex
  /\ polled = NoResponse
  /\ crawl = NoCrawl
  /\ chunked = NoChunks
  /\ polls = <<>>
  /\ uploads = NoUploads
  /\ embedded = NoEmbedding
  /\ answered = NoAnswer

NextJob ==
  \/ \E u \in Users, t \in RequestTypes : CreateJob(u, t)
  \/ \E j \in 1..MaxJobs : StartJob(j)
  \/ \E e \in DOMAIN execs : ExecLoad(e)
  \/ \E e \in DOMAIN execs : ExecDispatch(e)
  \/ \E e \in DOMAIN execs, ok \in BOOLEAN, c \in SnapContents : ExecCrawl(e, ok, c)
  \/ \E e \in DOMAIN execs, ok \in BOOLEAN : ExecSave(e, ok)
  \/ \E e \in DOMAIN execs : ExecComplete(e)
  \/ \E j \in 1..MaxJobs, u \in Users, rm \in BOOLEAN : DeleteJob(j, u, rm)

SpecJob == InitJob /\ [][NextJob]_vars

\* ====================================================== vector databases

\* f"usyd-rag-{db_id}"; pre says whether the name starts with 'usyd-rag-'
IndexName(d) == [pre |-> TRUE, id |-> d]
\* an index left behind under the reserved prefix, and one of another application
OrphanIndex(k) == [pre |-> TRUE, id |-> 100 + k]
ForeignIndex(k) == [pre |-> FALSE, id |-> k]

\* _chunk_text over a text of n tokens: the window starts visited by
\* for i in range(0, n, chunk_size - overlap) before the break, which is taken
\* at the first i with i + chunk_size >= n; one chunk is appended per start
ChunkStarts(n) ==
  LET stride == ChunkSize - ChunkOverlap
      range == IF n > 0 THEN {k * stride : k \in 0..((n - 1) \div stride)} ELSE {}
  IN {i \in range : i = 0 \/ (i - stride) + ChunkSize < n}
ChunkCount(n) == Cardinality(ChunkStarts(n))

\* The document list of a build is kept as a sequence of blocks, one block per
\* embedded record: the block [d, tag, counter, n, src] stands for the n
\* documents the inner loop appends for that record, in chunk order
ChunkDocuments(d, tag, counter, n, src) ==
  [d |-> d, tag |-> tag, counter |-> counter, n |-> n, src |-> src]

\* the documents of one block: id f"{db_id}_{tag}{counter}_{i}", chunk_index i
BlockDocuments(b) ==
  [k \in 1..b.n |-> [id |-> <<b.d, b.tag, b.counter,
                              IF b.tag = "doc" THEN 0 ELSE k - 1>>,
                     chunk_index |-> IF b.tag = "doc" THEN 0 ELSE k - 1,
                     src |-> b.src]]

\* the document list the blocks stand for, and len() of it
RECURSIVE DocumentList(_)
DocumentList(blocks) ==
  IF blocks = <<>> THEN <<>>
  ELSE BlockDocuments(Head(blocks)) \o DocumentList(Tail(blocks))
RECURSIVE DocumentsLen(_)
DocumentsLen(blocks) ==
  IF blocks = <<>> THEN 0 ELSE Head(blocks).n + DocumentsLen(Tail(blocks))

\* the loop with the embedding failure ending it instead of skipping the record
RECURSIVE ProcessScrapedRecordsBreak(_, _, _, _, _)
ProcessScrapedRecordsBreak(d, results, failing, i, acc) ==
  IF i > Len(results) THEN acc
  ELSE IF results[i] = 0 THEN ProcessScrapedRecordsBreak(d, results, failing, i + 1, acc)
  ELSE IF i \in failing THEN acc
  ELSE ProcessScrapedRecordsBreak(d, results, failing, i + 1,
         [documents |-> Append(acc.documents,
             ChunkDocuments(d, "", acc.document_count, ChunkCount(results[i]), <<1, i>>)),
          document_count |-> acc.document_count + 1])

\* _process_scraped_data_async, the loop over results: acc is
\* [documents, document_count]; failing = the records whose embedding call raises
RECURSIVE ProcessScrapedRecords(_, _, _, _, _)
ProcessScrapedRecords(d, results, failing, i, acc) ==
  IF i > Len(results) THEN acc
  ELSE IF results[i] = 0 THEN ProcessScrapedRecords(d, results, failing, i + 1, acc)
  ELSE IF i \in failing THEN ProcessScrapedRecords(d, results, failing, i + 1, acc)
  ELSE ProcessScrapedRecords(d, results, failing, i + 1,
         [documents |-> Append(acc.documents,
             ChunkDocuments(d, "", acc.document_count, ChunkCount(results[i]), <<1, i>>)),
          document_count |-> acc.document_count + 1])

\* _load_and_process_scraped_source, the loop over results: acc is
\* [documents, chunk_counter]; si is the position of the source in the build
RECURSIVE LoadAndProcessScrapedSource(_, _, _, _, _, _)
LoadAndProcessScrapedSource(d, results, failing, si, i, acc) ==
  IF i > Len(results) THEN acc
  ELSE IF results[i] = 0 THEN LoadAndProcessScrapedSource(d, results, failing, si, i + 1, acc)
  ELSE IF i \in failing THEN LoadAndProcessScrapedSource(d, results, failing, si, i + 1, acc)
  ELSE LoadAndProcessScrapedSource(d, results, failing, si, i + 1,
         [documents |-> Append(acc.documents,
             ChunkDocuments(d, "scraped", acc.chunk_counter, ChunkCount(results[i]), <<si, i>>)),
          chunk_counter |-> acc.chunk_counter + 1])

\* _load_and_process_document_source: one document per result, embedded whole;
\* result.get('chunk_index', 0) is 0 for the records the document loader writes
RECURSIVE LoadAndProcessDocumentSource(_, _, _, _, _, _)
LoadAndProcessDocumentSource(d, results, failing, si, i, acc) ==
  IF i > Len(results) THEN acc
  ELSE IF results[i] = 0 THEN LoadAndProcessDocumentSource(d, results, failing, si, i + 1, acc)
  ELSE IF i \in failing THEN LoadAndProcessDocumentSource(d, results, failing, si, i + 1, acc)
  ELSE LoadAndProcessDocumentSource(d, results, failing, si, i + 1,
         [documents |-> Append(acc.documents,
             ChunkDocuments(d, "doc", acc.chunk_counter, 1, <<si, i>>)),
          chunk_counter |-> acc.chunk_counter + 1])

NonEmptyRecords(results) == {i \in 1..Len(results) : results[i] > 0}

\* cleanup_unused_indexes(user_id): the backend's index set after the call;
\* failing = the indexes whose delete_index call raises
CleanupUnusedIndexes(user_id, failing) ==
  LET azure_index_names == indexes
      db_index_names == {dbs[d].azure_index_name :
                           d \in {x \in DOMAIN dbs : user_id = NoUser \/ dbs[x].user_id = user_id}}
      orphaned_indexes == azure_index_names \ db_index_names
      deleted == {n \in orphaned_indexes : n.pre /\ n \notin failing}
  IN indexes \ deleted

\* at most one delete_index call of a cleanup raises
FailChoices == {{}} \cup {{n} : n \in {x \in indexes : x.pre}}

\* the SELECT without its status condition
SourcesValidSingleAnyStatus(u, j) ==
  /\ j \in DOMAIN jobs
  /\ jobs[j].user_id = u

\* create_database_async: SELECT ... WHERE id AND user_id AND status = 'completed'
SourcesValidSingle(u, j) ==
  /\ j \in DOMAIN jobs
  /\ jobs[j].user_id = u
  /\ jobs[j].status = "completed"

\* create_database_from_hybrid_sources: the scrape job if given, every document
\* job, and at least one source
SourcesValidHybrid(u, j, docs) ==
  /\ j # NoJob => SourcesValidSingle(u, j)
  /\ \A k \in 1..Len(docs) :
        /\ docs[k] \in DOMAIN docjobs
        /\ docjobs[docs[k]].user_id = u
        /\ docjobs[docs[k]].status = "completed"
  /\ ~(j = NoJob /\ docs = <<>>)

\* the requests the model issues
CreateInputs ==
  { [user |-> 1, hybrid |-> FALSE, job |-> 1, docs |-> <<>>],
    [user |-> 1, hybrid |-> FALSE, job |-> 2, docs |-> <<>>],
    [user |-> 2, hybrid |-> FALSE, job |-> 1, docs |-> <<>>],
    [user |-> 1, hybrid |-> TRUE, job |-> 1, docs |-> <<1>>],
    [user |-> 1, hybrid |-> TRUE, job |-> NoJob, docs |-> <<1, 2>>],
    [user |-> 2, hybrid |-> TRUE, job |-> NoJob, docs |-> <<1>>],
    [user |-> 1, hybrid |-> TRUE, job |-> 2, docs |-> <<1>>],
    [user |-> 1, hybrid |-> TRUE, job |-> NoJob, docs |-> <<>>] }

\* CreateVectorDatabase, up to the validation of the sources
CreateValidate(inp) ==
  /\ nextDb <= MaxDbs
  /\ LET valid == IF inp.hybrid THEN SourcesValidHybrid(inp.user, inp.job, inp.docs)
                  ELSE SourcesValidSingle(inp.user, inp.job)
     IN creqs' = Put(creqs, nextDb,
                     [user |-> inp.user, hybrid |-> inp.hybrid, job |-> inp.job,
                      docs |-> inp.docs, pc |-> IF valid THEN "quota" ELSE "failed"])
  /\ nextDb' = nextDb + 1
  /\ UNCHANGED <<docjobs, docsnap, dbs, indexes, builds>>
  /\ UNCHANGED jobVars
  /\ UNCHANGED procVars

\* the quota check going on to create_index after the cleanup, whatever it freed
CreateQuotaNoRecheck(d, failing) ==
  /\ creqs[d].pc = "quota"
  /\ IF IndexLimit - Cardinality(indexes) > 0
     THEN /\ failing = {}
          /\ UNCHANGED indexes
     ELSE indexes' = CleanupUnusedIndexes(NoUser, failing)
  /\ creqs' = [creqs EXCEPT ![d].pc = "create"]
  /\ UNCHANGED <<docjobs, docsnap, dbs, nextDb, builds>>
  /\ UNCHANGED jobVars
  /\ UNCHANGED procVars

\* _create_search_index: the quota check, the automatic cleanup and the re-check
CreateQuota(d, failing) ==
  /\ creqs[d].pc = "quota"
  /\ IF IndexLimit - Cardinality(indexes) > 0
     THEN /\ failing = {}
          /\ creqs' = [creqs EXCEPT ![d].pc = "create"]
          /\ UNCHANGED indexes
     ELSE /\ indexes' = CleanupUnusedIndexes(NoUser, failing)
          /\ creqs' = [creqs EXCEPT ![d].pc =
                         IF IndexLimit - Cardinality(indexes') > 0 THEN "create" ELSE "failed"]
  /\ UNCHANGED <<docjobs, docsnap, dbs, nextDb, builds>>
  /\ UNCHANGED jobVars
  /\ UNCHANGED procVars

\* _create_search_index: index_client.create_index; an exception returns False
CreateIndexCall(d, ok) ==
  /\ creqs[d].pc = "create"
  /\ IF ok
     THEN /\ indexes' = indexes \cup {IndexName(d)}
          /\ creqs' = [creqs EXCEPT ![d].pc = "insert"]
     ELSE /\ creqs' = [creqs EXCEPT ![d].pc = "failed"]
          /\ UNCHANGED indexes
  /\ UNCHANGED <<docjobs, docsnap, dbs, nextDb, builds>>
  /\ UNCHANGED jobVars
  /\ UNCHANGED procVars

\* the thread a create starts: its arguments and its local variables
NewBuild(r) ==
  [hybrid |-> r.hybrid, job |-> r.job, docs |-> r.docs,
   pc |-> IF r.hybrid THEN "begin" ELSE "process",
   loaded |-> <<>>, documents |-> <<>>, document_count |-> 0, uploaded |-> 0,
   missing |-> FALSE, upload_failed |-> FALSE]

\* INSERT of the 'building' row, commit, start of the background thread
CreateInsert(d) ==
  /\ creqs[d].pc = "insert"
  /\ dbs' = Put(dbs, d, [user_id |-> creqs[d].user, status |-> "building",
                         azure_index_name |-> IndexName(d), document_count |-> 0,
                         scraping_job_id |-> creqs[d].job])
  /\ builds' = Put(builds, d, NewBuild(creqs[d]))
  /\ creqs' = [creqs EXCEPT ![d].pc = "returned"]
  /\ UNCHANGED <<docjobs, docsnap, indexes, nextDb>>
  /\ UNCHANGED jobVars
  /\ UNCHANGED procVars

\* the except branch logging the exception and leaving the row as it is
MarkErrorLogOnly(d) == dbs

\* the except branch of a build: UPDATE ... SET status = 'error' WHERE id = db_id
MarkError(d) == IF d \in DOMAIN dbs THEN [dbs EXCEPT ![d].status = "error"] ELSE dbs

\* where a build goes once all its sources are processed
AfterSources(documents) == IF documents # <<>> THEN "upload" ELSE "finish"

\* _process_scraped_data_async up to the upload: snapshot check and load, SELECT
\* of the row, the loop over the records
ProcessSingle(d, failing) ==
  /\ builds[d].pc = "process"
  /\ LET j == builds[d].job IN
     IF j \notin DOMAIN snapshot
     THEN /\ failing = {}
          /\ dbs' = MarkError(d)
          /\ builds' = [builds EXCEPT ![d].pc = "done", ![d].missing = TRUE]
     ELSE IF d \notin DOMAIN dbs
     THEN /\ failing = {}
          /\ dbs' = MarkError(d)
          /\ builds' = [builds EXCEPT ![d].pc = "done"]
     ELSE /\ failing \subseteq NonEmptyRecords(snapshot[j])
          /\ LET r == ProcessScrapedRecords(d, snapshot[j], failing, 1,
                        [documents |-> <<>>, document_count |-> 0])
             IN builds' = [builds EXCEPT
                   ![d].loaded = <<[kind |-> "scrape", results |-> snapshot[j],
                                    failing |-> failing]>>,
                   ![d].documents = r.documents,
                   ![d].document_count = r.document_count,
                   ![d].pc = AfterSources(r.documents)]
          /\ UNCHANGED dbs
  /\ UNCHANGED <<docjobs, docsnap, indexes, nextDb, creqs>>
  /\ UNCHANGED jobVars
  /\ UNCHANGED procVars

\* the sources of a hybrid build in processing order
Sources(b) ==
  (IF b.job # NoJob THEN <<[kind |-> "scrape", id |-> b.job]>> ELSE <<>>)
  \o [k \in 1..Len(b.docs) |-> [kind |-> "doc", id |-> b.docs[k]]]

\* _process_hybrid_data_async: SELECT of the row
BeginHybrid(d) ==
  /\ builds[d].pc = "begin"
  /\ IF d \notin DOMAIN dbs
     THEN /\ dbs' = MarkError(d)
          /\ builds' = [builds EXCEPT ![d].pc = "done"]
     ELSE /\ builds' = [builds EXCEPT ![d].pc = "source"]
          /\ UNCHANGED dbs
  /\ UNCHANGED <<docjobs, docsnap, indexes, nextDb, creqs>>
  /\ UNCHANGED jobVars
  /\ UNCHANGED procVars

\* _process_hybrid_data_async: one source loaded and processed, its documents
\* appended to all_documents, document_count += len(documents of the source)
ProcessSource(d, failing) ==
  /\ builds[d].pc = "source"
  /\ LET b == builds[d]
         si == Len(b.loaded) + 1
         s == Sources(b)[si]
         files == IF s.kind = "scrape" THEN snapshot ELSE docsnap
         present == s.id \in DOMAIN files
         results == IF present THEN files[s.id] ELSE <<>>
         r == IF s.kind = "scrape"
              THEN LoadAndProcessScrapedSource(d, results, failing, si, 1,
                      [documents |-> <<>>, chunk_counter |-> 0])
              ELSE LoadAndProcessDocumentSource(d, results, failing, si, 1,
                      [documents |-> <<>>, chunk_counter |-> 0])
         all_documents == b.documents \o r.documents
     IN /\ failing \subseteq NonEmptyRecords(results)
        /\ builds' = [builds EXCEPT
              ![d].loaded = Append(b.loaded, [kind |-> s.kind, results |-> results,
                                              failing |-> failing]),
              ![d].missing = b.missing \/ ~present,
              ![d].documents = all_documents,
              ![d].document_count = b.document_count + DocumentsLen(r.documents),
              ![d].pc = IF si = Len(Sources(b)) THEN AfterSources(all_documents)
                        ELSE "source"]
  /\ UNCHANGED <<docjobs, docsnap, dbs, indexes, nextDb, creqs>>
  /\ UNCHANGED jobVars
  /\ UNCHANGED procVars

\* the batch loop with a failed upload marking the database and going on
UploadBatchNoAbort(d, ok) ==
  /\ builds[d].pc = "upload"
  /\ LET b == builds[d]
         upto == Min(b.uploaded + UploadBatchSize, DocumentsLen(b.documents))
         pc == IF upto = DocumentsLen(b.documents) THEN "finish" ELSE "upload"
     IN IF ok /\ IndexName(d) \in indexes
        THEN /\ builds' = [builds EXCEPT ![d].uploaded = upto, ![d].pc = pc]
             /\ UNCHANGED dbs
        ELSE /\ builds' = [builds EXCEPT ![d].upload_failed = TRUE, ![d].pc = "finish"]
             /\ dbs' = MarkError(d)
  /\ UNCHANGED <<docjobs, docsnap, indexes, nextDb, creqs>>
  /\ UNCHANGED jobVars
  /\ UNCHANGED procVars

\* the batch loop with a failed upload logged and the loop left
UploadBatchSwallow(d, ok) ==
  /\ builds[d].pc = "upload"
  /\ LET b == builds[d]
         upto == Min(b.uploaded + UploadBatchSize, DocumentsLen(b.documents))
         pc == IF upto = DocumentsLen(b.documents) THEN "finish" ELSE "upload"
     IN IF ok /\ IndexName(d) \in indexes
        THEN builds' = [builds EXCEPT ![d].uploaded = upto, ![d].pc = pc]
        ELSE builds' = [builds EXCEPT ![d].upload_failed = TRUE, ![d].pc = "finish"]
  /\ UNCHANGED <<docjobs, docsnap, dbs, indexes, nextDb, creqs>>
  /\ UNCHANGED jobVars
  /\ UNCHANGED procVars

\* the upload made in one call with the whole document list
UploadBatchWhole(d, ok) ==
  /\ builds[d].pc = "upload"
  /\ LET b == builds[d]
         upto == DocumentsLen(b.documents)
     IN IF ok /\ IndexName(d) \in indexes
        THEN /\ builds' = [builds EXCEPT ![d].uploaded = upto, ![d].pc = "finish"]
             /\ UNCHANGED dbs
        ELSE /\ builds' = [builds EXCEPT ![d].upload_failed = TRUE, ![d].pc = "done"]
             /\ dbs' = MarkError(d)
  /\ UNCHANGED <<docjobs, docsnap, indexes, nextDb, creqs>>
  /\ UNCHANGED jobVars
  /\ UNCHANGED procVars

\* one search_client.upload_documents call of the batch loop; a failure is
\* re-raised into the except branch of the build
UploadBatch(d, ok) ==
  /\ builds[d].pc = "upload"
  /\ LET b == builds[d]
         upto == Min(b.uploaded + UploadBatchSize, DocumentsLen(b.documents))
     IN IF ok /\ IndexName(d) \in indexes
        THEN /\ builds' = [builds EXCEPT ![d].uploaded = upto,
                              ![d].pc = IF upto = DocumentsLen(b.documents) THEN "finish"
                                        ELSE "upload"]
             /\ UNCHANGED dbs
        ELSE /\ builds' = [builds EXCEPT ![d].upload_failed = TRUE, ![d].pc = "done"]
             /\ dbs' = MarkError(d)
  /\ UNCHANGED <<docjobs, docsnap, indexes, nextDb, creqs>>
  /\ UNCHANGED jobVars
  /\ UNCHANGED procVars

\* the final write as two statements: the status first, the count after it
FinishBuildTwoWrites(d) ==
  /\ builds[d].pc = "finish"
  /\ IF d \in DOMAIN dbs /\ dbs[d].status # "ready"
     THEN /\ dbs' = [dbs EXCEPT ![d].status = "ready"]
          /\ UNCHANGED builds
     ELSE /\ dbs' = IF d \in DOMAIN dbs
                    THEN [dbs EXCEPT ![d].document_count = builds[d].document_count]
                    ELSE dbs
          /\ builds' = [builds EXCEPT ![d].pc = "done"]
  /\ UNCHANGED <<docjobs, docsnap, indexes, nextDb, creqs>>
  /\ UNCHANGED jobVars
  /\ UNCHANGED procVars

\* UPDATE ... SET status = 'ready', document_count = ... WHERE id = db_id
FinishBuild(d) ==
  /\ builds[d].pc = "finish"
  /\ dbs' = IF d \in DOMAIN dbs
            THEN [dbs EXCEPT ![d].status = "ready",
                             ![d].document_count = builds[d].document_count]
            ELSE dbs
  /\ builds' = [builds EXCEPT ![d].pc = "done"]
  /\ UNCHANGED <<docjobs, docsnap, indexes, nextDb, creqs>>
  /\ UNCHANGED jobVars
  /\ UNCHANGED procVars

\* cleanup_unused_indexes called from the maintenance route or by a service
ReclaimOrphans(u, failing) ==
  /\ indexes' = CleanupUnusedIndexes(u, failing)
  /\ UNCHANGED <<docjobs, docsnap, dbs, nextDb, creqs, builds>>
  /\ UNCHANGED jobVars
  /\ UNCHANGED procVars

\* delete_database: the index delete is best effort, the row is removed; on an
\* unknown id or for another user it returns False and changes nothing
DeleteDatabase(d, u, ok) ==
  /\ d \in DOMAIN dbs
  /\ dbs[d].user_id = u
  /\ indexes' = IF ok THEN indexes \ {dbs[d].azure_index_name} ELSE indexes
  /\ dbs' = Remove(dbs, d)
  /\ UNCHANGED <<docjobs, docsnap, nextDb, creqs, builds>>
  /\ UNCHANGED jobVars
  /\ UNCHANGED procVars

\* the jobs the database operations start from, all of user 1: scrape job 1 has
\* completed and left its snapshot, scrape job 2 is still pending, document jobs
\* 1 and 2 are stored (a document job is inserted as 'completed' with its file)
FixtureJobIds == {1, 2}
FixtureDocJobIds == {1, 2}
FixtureJob(j) ==
  [user_id |-> 1,
   scraping_type |-> "deep",
   status |-> IF j = 2 THEN "pending" ELSE "completed",
   result_summary |-> IF j = 2 THEN NullSummary
                      ELSE [kind |-> "result", progress |-> 0, message |-> ""]]
DocContents == <<7, 0>>

InitDb ==
  /\ jobs = [j \in FixtureJobIds |-> FixtureJob(j)]
  /\ snapshot = [j \in {1} |-> <<81000, 0, 5>>]
  /\ nextJob = 3
  /\ execs = <<>>
  /\ docjobs = [k \in FixtureDocJobIds |-> [user_id |-> 1, status |-> "completed"]]
  /\ docsnap = [k \in FixtureDocJobIds |-> DocContents]
  /\ dbs = <<>>
  /\ indexes = {ForeignIndex(1), OrphanIndex(1)}
  /\ nextDb = 1
  /\ creqs = <<>>
  /\ builds = <<>>
  /\ reindex = NoReindex
  /\ polled = NoResponse
  /\ crawl = NoCrawl
  /\ chunked = NoChunks
  /\ polls = <<>>
  /\ uploads = NoUploads
  /\ embedded = NoEmbedding
  /\ answered = NoAnswer

NextDb ==
  \/ \E inp \in CreateInputs : CreateValidate(inp)
  \/ \E d \in DOMAIN creqs, f \in FailChoices : CreateQuota(d, f)
  \/ \E d \in DOMAIN creqs, ok \in BOOLEAN : CreateIndexCall(d, ok)
  \/ \E d \in DOMAIN creqs : CreateInsert(d)
  \/ \E d \in DOMAIN builds, f \in SUBSET (1..3) : ProcessSingle(d, f)
  \/ \E d \in DOMAIN builds : BeginHybrid(d)
  \/ \E d \in DOMAIN builds, f \in SUBSET (1..3) : ProcessSource(d, f)
  \/ \E d \in DOMAIN builds, ok \in BOOLEAN : UploadBatch(d, ok)
  \/ \E d \in DOMAIN builds : FinishBuild(d)
  \/ \E u \in Users \cup {NoUser}, f \in FailChoices : ReclaimOrphans(u, f)
  \/ \E d \in 1..MaxDbs, u \in Users, ok \in BOOLEAN : DeleteDatabase(d, u, ok)
  \/ \E j \in DOMAIN snapshot, u \in Users : DeleteJob(j, u, TRUE)

SpecDb == InitDb /\ [][NextDb]_vars

\* ===================================================== repeated indexing

\* page lengths of the snapshots fed to the indexing step (0, 1, 2, 3 chunks)
PageLengths == {0, 5, 1500, 2500}
ReindexResults == UNION {[1..n -> PageLengths] : n \in 1..MaxResults}

\* search_client.upload_documents(documents=batch): the documents are stored
\* under their id, a document already stored under that id is replaced; what is
\* kept of a document is the record and the chunk it was made from
UploadDocuments(store, docs) ==
  LET ids == {docs[k].id : k \in 1..Len(docs)}
  IN [id \in DOMAIN store \cup ids |->
        IF id \in ids
        THEN LET k == CHOOSE x \in 1..Len(docs) : docs[x].id = id
             IN <<docs[k].src[2], docs[k].chunk_index>>
        ELSE store[id]]

\* one run of the indexing step for database 1 over the snapshot: the record
\* loop of the single-source build or of the hybrid build's scraped source,
\* then the upload (one batch; if it raises nothing is stored)
IndexingRun(failing, ok) ==
  /\ Len(reindex.runs) < MaxRuns
  /\ failing \subseteq NonEmptyRecords(reindex.results)
  /\ LET r == IF reindex.hybrid
               THEN LoadAndProcessScrapedSource(1, reindex.results, failing, 1, 1,
                       [documents |-> <<>>, chunk_counter |-> 0])
               ELSE ProcessScrapedRecords(1, reindex.results, failing, 1,
                       [documents |-> <<>>, document_count |-> 0])
         docs == DocumentList(r.documents)
     IN reindex' = [reindex EXCEPT
           !.store = IF ok THEN UploadDocuments(@, docs) ELSE @,
           !.runs = Append(@, [ids |-> {docs[k].id : k \in 1..Len(docs)},
                               uploaded |-> IF ok THEN Len(docs) ELSE 0,
                               failing |-> failing,
                               completed |-> ok])]
  /\ UNCHANGED jobVars
  /\ UNCHANGED dbVars
  /\ UNCHANGED <<polled, crawl, chunked, embedded, answered, polls, uploads>>

InitIndex ==
  /\ jobs = <<>>
  /\ snapshot = <<>>
  /\ nextJob = 1
  /\ execs = <<>>
  /\ docjobs = <<>>
  /\ docsnap = <<>>
  /\ dbs = <<>>
  /\ indexes = {}
  /\ nextDb = 1
  /\ creqs = <<>>
  /\ builds = <<>>
  /\ \E h \in BOOLEAN, res \in ReindexResults :
        reindex = [hybrid |-> h, results |-> res, store |-> <<>>, runs |-> <<>>]
  /\ polled = NoResponse
  /\ crawl = NoCrawl
  /\ chunked = NoChunks
  /\ polls = <<>>
  /\ uploads = NoUploads
  /\ embedded = NoEmbedding
  /\ answered = NoAnswer

NextIndex ==
  \E f \in SUBSET (1..MaxResults), ok \in BOOLEAN : IndexingRun(f, ok)

SpecIndex == InitIndex /\ [][NextIndex]_vars

\* ========================================================= status polls

\* dict.get(key, default) on a row of scraping_jobs
RowGet(row, key, default) == IF key \in DOMAIN row THEN row[key] ELSE default

\* scraping_status: get_job_status (SELECT * ... WHERE id AND user_id), then the
\* JSON body built from the row; 404 if there is no such row
GetStatus(j, u) ==
  /\ polled' = IF j \in DOMAIN jobs /\ jobs[j].user_id = u
                THEN [code |-> 200,
                      status |-> jobs[j].status,
                      progress |-> RowGet(jobs[j], "progress", 0),
                      message |-> RowGet(jobs[j], "message", ""),
                      result_summary |-> RowGet(jobs[j], "result_summary", NullSummary)]
                ELSE [NoResponse EXCEPT !.code = 404]
  /\ UNCHANGED jobVars
  /\ UNCHANGED dbVars
  /\ UNCHANGED <<reindex, crawl, chunked, embedded, answered, polls, uploads>>

\* a job of user 1 has been created and is started and polled
InitPoll ==
  /\ \E t \in RequestTypes :
        jobs = [j \in {1} |-> [user_id |-> 1, scraping_type |-> t, status |-> "pending",
                               result_summary |-> NullSummary]]
  /\ snapshot = <<>>
  /\ nextJob = 2
  /\ execs = <<>>
  /\ docjobs = <<>>
  /\ docsnap = <<>>
  /\ dbs = <<>>
  /\ indexes = {}
  /\ nextDb = 1
  /\ creqs = <<>>
  /\ builds = <<>>
  /\ reindex = NoReindex
  /\ polled = NoResponse
  /\ crawl = NoCrawl
  /\ chunked = NoChunks
  /\ polls = <<>>
  /\ uploads = NoUploads
  /\ embedded = NoEmbedding
  /\ answered = NoAnswer

NextPoll ==
  \/ StartJob(1)
  \/ \E e \in DOMAIN execs : ExecLoad(e)
  \/ \E e \in DOMAIN execs : ExecDispatch(e)
  \/ \E e \in DOMAIN execs, ok \in BOOLEAN, c \in SnapContents : ExecCrawl(e, ok, c)
  \/ \E e \in DOMAIN execs, ok \in BOOLEAN : ExecSave(e, ok)
  \/ \E e \in DOMAIN execs : ExecComplete(e)
  \/ \E u \in Users : GetStatus(1, u)

SpecPoll == InitPoll /\ [][NextPoll]_vars

\* ================================================= background threads run

\* the steps of scraper thread e and of the build thread of database d
ExecStep(e) ==
  /\ e \in DOMAIN execs
  /\ \/ ExecLoad(e)
     \/ ExecDispatch(e)
     \/ \E ok \in BOOLEAN, c \in SnapContents : ExecCrawl(e, ok, c)
     \/ \E ok \in BOOLEAN : ExecSave(e, ok)
     \/ ExecComplete(e)
BuildStep(d) ==
  /\ d \in DOMAIN builds
  /\ \/ \E f \in SUBSET (1..3) : ProcessSingle(d, f)
     \/ BeginHybrid(d)
     \/ \E f \in SUBSET (1..3) : ProcessSource(d, f)
     \/ \E ok \in BOOLEAN : UploadBatch(d, ok)
     \/ FinishBuild(d)

\* a thread that has run to its end
DoneExec(j) == [job |-> j, pc |-> "done", type |-> "none", result |-> <<>>]

\* the requests made while the threads are followed to their end
LiveInputs ==
  { [user |-> 1, hybrid |-> FALSE, job |-> 1, docs |-> <<>>],
    [user |-> 1, hybrid |-> TRUE, job |-> 1, docs |-> <<1>>] }

\* either scrape job 1 completed (a page of 101 chunks and an empty page), all
\* scraper threads ended and a document job stored, or job 1 pending with every
\* create request already refused
InitLive ==
  /\ \/ /\ jobs = [j \in {1} |-> FixtureJob(j)]
        /\ snapshot = [j \in {1} |-> <<81000, 0>>]
        /\ execs = [e \in 1..MaxExecs |-> DoneExec(1)]
        /\ nextDb = 1
        /\ creqs = <<>>
        /\ indexes = {ForeignIndex(1)}
     \/ /\ \E t \in RequestTypes :
              jobs = [j \in {1} |-> [user_id |-> 1, scraping_type |-> t,
                                     status |-> "pending",
                                     result_summary |-> NullSummary]]
        /\ snapshot = <<>>
        /\ execs = <<>>
        /\ nextDb = MaxDbs + 1
        /\ creqs = [d \in 1..MaxDbs |->
                      [user |-> 1, hybrid |-> TRUE, job |-> NoJob, docs |-> <<>>,
                       pc |-> "failed"]]
        /\ indexes = {}
  /\ nextJob = 2
  /\ docjobs = [k \in {1} |-> [user_id |-> 1, status |-> "completed"]]
  /\ docsnap = [k \in {1} |-> DocContents]
  /\ dbs = <<>>
  /\ builds = <<>>
  /\ reindex = NoReindex
  /\ polled = NoResponse
  /\ crawl = NoCrawl
  /\ chunked = NoChunks
  /\ polls = <<>>
  /\ uploads = NoUploads
  /\ embedded = NoEmbedding
  /\ answered = NoAnswer

\* requests, threads, and the calls that take a thread's row, snapshot or
\* index away while it runs
NextLive ==
  \/ \E inp \in LiveInputs : CreateValidate(inp)
  \/ \E d \in DOMAIN creqs : CreateQuota(d, {})
  \/ \E d \in DOMAIN creqs, ok \in BOOLEAN : CreateIndexCall(d, ok)
  \/ \E d \in DOMAIN creqs : CreateInsert(d)
  \/ \E d \in 1..MaxDbs : BuildStep(d)
  \/ ReclaimOrphans(2, {})
  \/ \E d \in 1..MaxDbs : DeleteDatabase(d, 1, TRUE)
  \/ DeleteJob(1, 1, TRUE)
  \/ StartJob(1)
  \/ \E e \in 1..MaxExecs : ExecStep(e)

\* every started thread is scheduled until it has ended
SpecLive ==
  /\ InitLive
  /\ [][NextLive]_vars
  /\ \A e \in 1..MaxExecs : WF_vars(ExecStep(e))
  /\ \A d \in 1..MaxDbs : WF_vars(BuildStep(d))

\* ============================================================ deep crawl

\* a URL is its host and its path; an href is a URL or, with host "", a
\* reference relative to the page it stands on
SeedUrl == [host |-> "a", path |-> 1]
Hrefs ==
  {[host |-> "", path |-> p] : p \in 1..MaxSitePages}
    \cup {[host |-> "a", path |-> 1], [host |-> "b", path |-> 1]}
\* result.links['internal'] of a fetched page: up to two hrefs
LinkLists == {<<>>} \cup {<<h>> : h \in Hrefs} \cup {<<g, h>> : g, h \in Hrefs}

\* urljoin(current_url, href) and urlparse(url).netloc
UrlJoin(base, href) ==
  IF href.host = "" THEN [host |-> base.host, path |-> href.path]
  ELSE [host |-> href.host, path |-> href.path]
Netloc(url) == url.host

\* whether the page's links include one to another host than the seed's (kept
\* with the record of the fetch, not by the crawler)
OffsiteLink(c, current_url, links) ==
  \E k \in 1..Len(links) : Netloc(UrlJoin(current_url, links[k])) # Netloc(c.seed)

\* the test that skips the popped entry, without the visited-set
ShouldSkipDepthOnly(c, url, depth) == depth > c.max_depth

\* if current_url in scraped_urls or depth > max_depth: continue
ShouldSkip(c, url, depth) == url \in c.scraped_urls \/ depth > c.max_depth

\* the link filter without the comparison of the hosts
KeepLinkAnyHost(c, link_url) == link_url \notin c.scraped_urls

\* if link_domain == base_domain and link_url not in scraped_urls
KeepLink(c, link_url) ==
  Netloc(link_url) = Netloc(c.seed) /\ link_url \notin c.scraped_urls

\* the loop over the links putting each kept link at the head of the queue
RECURSIVE AppendLinksFront(_, _, _, _, _)
AppendLinksFront(c, current_url, depth, links, queue) ==
  IF links = <<>> THEN queue
  ELSE LET link_url == UrlJoin(current_url, Head(links))
       IN AppendLinksFront(c, current_url, depth, Tail(links),
             IF KeepLink(c, link_url) THEN << <<link_url, depth + 1, current_url>> >> \o queue
             ELSE queue)

\* the for loop over the links of the page current_url fetched at depth
RECURSIVE AppendLinks(_, _, _, _, _)
AppendLinks(c, current_url, depth, links, queue) ==
  IF links = <<>> THEN queue
  ELSE LET link_url == UrlJoin(current_url, Head(links))
       IN AppendLinks(c, current_url, depth, Tail(links),
             IF KeepLink(c, link_url) THEN Append(queue, <<link_url, depth + 1, current_url>>)
             ELSE queue)

\* while to_scrape and len(scraped_urls) < max_pages
DeepLoopGoesOn(c) ==
  c.to_scrape # <<>> /\ Cardinality(c.scraped_urls) < c.max_pages

\* async with AsyncWebCrawler(...): entering it may raise, which the outer
\* except turns into the failure envelope
DeepStart(ok) ==
  /\ crawl.mode = "deep"
  /\ crawl.pc = "start"
  /\ crawl' = IF ok THEN [crawl EXCEPT !.pc = "loop", !.entered = TRUE]
               ELSE [crawl EXCEPT !.pc = "returned", !.success = FALSE]
  /\ UNCHANGED <<jobVars, dbVars, reindex, polled, chunked, embedded, answered, polls, uploads>>

\* the continue branch with the entry read but left at the head of the queue
DeepSkipNoPop ==
  /\ crawl.mode = "deep"
  /\ crawl.pc = "loop"
  /\ DeepLoopGoesOn(crawl)
  /\ ShouldSkip(crawl, Head(crawl.to_scrape)[1], Head(crawl.to_scrape)[2])
  /\ crawl' = [crawl EXCEPT !.to_scrape = <<Head(@)>> \o Tail(@)]
  /\ UNCHANGED <<jobVars, dbVars, reindex, polled, chunked, embedded, answered, polls, uploads>>

\* one iteration that pops an entry and takes the continue branch
DeepSkip ==
  /\ crawl.mode = "deep"
  /\ crawl.pc = "loop"
  /\ DeepLoopGoesOn(crawl)
  /\ ShouldSkip(crawl, Head(crawl.to_scrape)[1], Head(crawl.to_scrape)[2])
  /\ crawl' = [crawl EXCEPT !.to_scrape = Tail(@)]
  /\ UNCHANGED <<jobVars, dbVars, reindex, polled, chunked, embedded, answered, polls, uploads>>

\* the iteration with a failed fetch ending the crawl with what it has
DeepFetchFailureEnds(outcome, links) ==
  /\ crawl.mode = "deep"
  /\ crawl.pc = "loop"
  /\ DeepLoopGoesOn(crawl)
  /\ LET current_url == Head(crawl.to_scrape)[1]
         depth == Head(crawl.to_scrape)[2]
         c == [crawl EXCEPT !.to_scrape = Tail(@),
                            !.scraped_urls = @ \cup {current_url},
                            !.fetched = Append(@, [url |-> current_url, depth |-> depth,
                                                   outcome |-> outcome, via |-> Head(crawl.to_scrape)[3],
                                                   offsite |-> OffsiteLink(crawl, current_url, links)])]
     IN /\ ~ShouldSkip(crawl, current_url, depth)
        /\ outcome # "ok" => links = <<>>
        /\ crawl' =
             IF outcome = "ok"
             THEN [c EXCEPT
                     !.results = Append(@, [url |-> current_url, depth |-> depth]),
                     !.to_scrape = IF depth < c.max_depth
                                   THEN AppendLinks(c, current_url, depth, links, @)
                                   ELSE @]
             ELSE [c EXCEPT !.pc = "returned", !.success = TRUE]
  /\ UNCHANGED <<jobVars, dbVars, reindex, polled, chunked, embedded, answered, polls, uploads>>

\* one iteration that fetches the popped URL: crawler.arun returns a result
\* with success, returns one without, or raises
DeepFetch(outcome, links) ==
  /\ crawl.mode = "deep"
  /\ crawl.pc = "loop"
  /\ DeepLoopGoesOn(crawl)
  /\ LET current_url == Head(crawl.to_scrape)[1]
         depth == Head(crawl.to_scrape)[2]
         c == [crawl EXCEPT !.to_scrape = Tail(@),
                            !.scraped_urls = @ \cup {current_url},
                            !.fetched = Append(@, [url |-> current_url, depth |-> depth,
                                                   outcome |-> outcome, via |-> Head(crawl.to_scrape)[3],
                                                   offsite |-> OffsiteLink(crawl, current_url, links)])]
     IN /\ ~ShouldSkip(crawl, current_url, depth)
        /\ outcome # "ok" => links = <<>>
        /\ crawl' =
             IF outcome = "ok"
             THEN [c EXCEPT
                     !.results = Append(@, [url |-> current_url, depth |-> depth]),
                     !.to_scrape = IF depth < c.max_depth
                                   THEN AppendLinks(c, current_url, depth, links, @)
                                   ELSE @]
             ELSE c
  /\ UNCHANGED <<jobVars, dbVars, reindex, polled, chunked, embedded, answered, polls, uploads>>

\* max([r.get('depth', 0) for r in results]) if results else 0
MaxDepthReached(results) ==
  IF results = <<>> THEN 0
  ELSE CHOOSE m \in {results[i].depth : i \in 1..Len(results)} :
         \A i \in 1..Len(results) : results[i].depth <= m

\* the loop has ended: the success envelope with the results
DeepReturn ==
  /\ crawl.mode = "deep"
  /\ crawl.pc = "loop"
  /\ ~DeepLoopGoesOn(crawl)
  /\ crawl' = [crawl EXCEPT !.pc = "returned", !.success = TRUE,
                            !.max_depth_reached = MaxDepthReached(crawl.results)]
  /\ UNCHANGED <<jobVars, dbVars, reindex, polled, chunked, embedded, answered, polls, uploads>>

\* scrape_website_deep(url, max_depth, max_pages) has been called; fetched is
\* the record of the crawler.arun calls made, entered whether the crawler's
\* context was entered. An entry of to_scrape is (url, depth) followed by the
\* page in whose links the URL was found (the seed for the seed), which the
\* record of the fetch keeps as via
InitCrawl ==
  /\ jobs = <<>>
  /\ snapshot = <<>>
  /\ nextJob = 1
  /\ execs = <<>>
  /\ docjobs = <<>>
  /\ docsnap = <<>>
  /\ dbs = <<>>
  /\ indexes = {}
  /\ nextDb = 1
  /\ creqs = <<>>
  /\ builds = <<>>
  /\ reindex = NoReindex
  /\ polled = NoResponse
  /\ chunked = NoChunks
  /\ polls = <<>>
  /\ uploads = NoUploads
  /\ embedded = NoEmbedding
  /\ answered = NoAnswer
  /\ \E max_depth \in (0 - 1)..MaxDepthArg, max_pages \in 0..MaxPagesArg :
        crawl = [mode |-> "deep", pc |-> "start", seed |-> SeedUrl,
                 max_depth |-> max_depth, max_pages |-> max_pages,
                 scraped_urls |-> {}, to_scrape |-> << <<SeedUrl, 0, SeedUrl>> >>,
                 results |-> <<>>, fetched |-> <<>>, entered |-> FALSE,
                 success |-> FALSE, max_depth_reached |-> 0]

\* the same call with max_pages one above MaxPagesArg and max_depth >= 1: room
\* for two pages found on the seed and a page found on one of them
InitOrder ==
  /\ jobs = <<>>
  /\ snapshot = <<>>
  /\ nextJob = 1
  /\ execs = <<>>
  /\ docjobs = <<>>
  /\ docsnap = <<>>
  /\ dbs = <<>>
  /\ indexes = {}
  /\ nextDb = 1
  /\ creqs = <<>>
  /\ builds = <<>>
  /\ reindex = NoReindex
  /\ polled = NoResponse
  /\ chunked = NoChunks
  /\ polls = <<>>
  /\ uploads = NoUploads
  /\ embedded = NoEmbedding
  /\ answered = NoAnswer
  /\ \E max_depth \in 1..MaxDepthArg :
        crawl = [mode |-> "deep", pc |-> "start", seed |-> SeedUrl,
                 max_depth |-> max_depth, max_pages |-> MaxPagesArg + 1,
                 scraped_urls |-> {}, to_scrape |-> << <<SeedUrl, 0, SeedUrl>> >>,
                 results |-> <<>>, fetched |-> <<>>, entered |-> FALSE,
                 success |-> FALSE, max_depth_reached |-> 0]

NextCrawl ==
  \/ \E ok \in BOOLEAN : DeepStart(ok)
  \/ DeepSkip
  \/ \E outcome \in {"ok", "unsuccessful", "raise"}, links \in LinkLists :
        DeepFetch(outcome, links)
  \/ DeepReturn

SpecCrawl == InitCrawl /\ [][NextCrawl]_vars

SpecOrder == InitOrder /\ [][NextCrawl]_vars

\* the coroutine is run to its end: every await of a fetch returns or raises
SpecCrawlFair == SpecCrawl /\ WF_vars(NextCrawl)

\* ========================================================= sitemap crawl

\* the <loc> entries found in the sitemap, in document order: n distinct URLs,
\* or a list that names a URL twice
ListedChoices == {[i \in 1..n |-> i] : n \in 0..MaxListed} \cup {<<1, 2, 1>>}

\* a slice that keeps the whole list
SliceAll(seq, k) == seq

\* seq[:k] of a Python list
PySlice(seq, k) ==
  IF k >= 0 THEN SubSeq(seq, 1, Min(k, Len(seq)))
  ELSE SubSeq(seq, 1, IF Len(seq) + k > 0 THEN Len(seq) + k ELSE 0)

\* requests.get, raise_for_status, ET.fromstring, the collection of the <loc>
\* texts and urls = urls[:max_pages]; a failure of the download or of the
\* parse goes to the outer except
SitemapDownload(ok, listed) ==
  /\ crawl.mode = "sitemap"
  /\ crawl.pc = "download"
  /\ crawl' = IF ok
               THEN [crawl EXCEPT !.pc = "start", !.listed = listed,
                                  !.urls = PySlice(listed, crawl.max_pages)]
               ELSE [crawl EXCEPT !.pc = "returned", !.success = FALSE]
  /\ UNCHANGED <<jobVars, dbVars, reindex, polled, chunked, embedded, answered, polls, uploads>>

\* async with AsyncWebCrawler(...)
SitemapStart(ok) ==
  /\ crawl.mode = "sitemap"
  /\ crawl.pc = "start"
  /\ crawl' = IF ok THEN [crawl EXCEPT !.pc = "loop", !.entered = TRUE]
               ELSE [crawl EXCEPT !.pc = "returned", !.success = FALSE]
  /\ UNCHANGED <<jobVars, dbVars, reindex, polled, chunked, embedded, answered, polls, uploads>>

\* one iteration of for url in urls
SitemapFetch(outcome) ==
  /\ crawl.mode = "sitemap"
  /\ crawl.pc = "loop"
  /\ crawl.pos <= Len(crawl.urls)
  /\ LET url == crawl.urls[crawl.pos]
     IN crawl' = [crawl EXCEPT
           !.pos = @ + 1,
           !.fetched = Append(@, [url |-> url, outcome |-> outcome]),
           !.results = IF outcome = "ok" THEN Append(@, url) ELSE @]
  /\ UNCHANGED <<jobVars, dbVars, reindex, polled, chunked, embedded, answered, polls, uploads>>

\* the success envelope
SitemapReturn ==
  /\ crawl.mode = "sitemap"
  /\ crawl.pc = "loop"
  /\ crawl.pos > Len(crawl.urls)
  /\ crawl' = [crawl EXCEPT !.pc = "returned", !.success = TRUE,
                             !.total_urls_found = Len(crawl.urls),
                             !.pages_scraped = Len(crawl.results)]
  /\ UNCHANGED <<jobVars, dbVars, reindex, polled, chunked, embedded, answered, polls, uploads>>

\* scrape_from_sitemap(sitemap_url, max_pages) has been called
InitSitemap ==
  /\ jobs = <<>>
  /\ snapshot = <<>>
  /\ nextJob = 1
  /\ execs = <<>>
  /\ docjobs = <<>>
  /\ docsnap = <<>>
  /\ dbs = <<>>
  /\ indexes = {}
  /\ nextDb = 1
  /\ creqs = <<>>
  /\ builds = <<>>
  /\ reindex = NoReindex
  /\ polled = NoResponse
  /\ chunked = NoChunks
  /\ polls = <<>>
  /\ uploads = NoUploads
  /\ embedded = NoEmbedding
  /\ answered = NoAnswer
  /\ \E max_pages \in 0..MaxPagesArg :
        crawl = [mode |-> "sitemap", pc |-> "download", max_pages |-> max_pages,
                 listed |-> <<>>, urls |-> <<>>, pos |-> 1, results |-> <<>>,
                 fetched |-> <<>>, entered |-> FALSE, success |-> FALSE,
                 total_urls_found |-> 0, pages_scraped |-> 0]

NextSitemap ==
  \/ \E ok \in BOOLEAN, listed \in ListedChoices : SitemapDownload(ok, listed)
  \/ \E ok \in BOOLEAN : SitemapStart(ok)
  \/ \E outcome \in {"ok", "unsuccessful", "raise"} : SitemapFetch(outcome)
  \/ SitemapReturn

SpecSitemap == InitSitemap /\ [][NextSitemap]_vars

\* =============================================================== chunker

\* a text is a sequence of characters, "s" a whitespace character and "a" any
\* other one
Chars == {"s", "a"}
Texts == UNION {[1..n -> Chars] : n \in 0..MaxChars}

\* tokenizer.encode(text): the text cut into consecutive pieces, none empty;
\* here one token per maximal run of whitespace or of other characters
RECURSIVE Encode(_)
Encode(text) ==
  IF text = <<>> THEN <<>>
  ELSE LET rest == Encode(Tail(text))
       IN IF rest # <<>> /\ Head(rest)[1] = Head(text)
          THEN << <<Head(text)>> \o Head(rest) >> \o Tail(rest)
          ELSE << <<Head(text)>> >> \o rest

\* tokenizer.decode(tokens): the pieces put together again
RECURSIVE Decode(_)
Decode(tokens) == IF tokens = <<>> THEN <<>> ELSE Head(tokens) \o Decode(Tail(tokens))

\* content.split(): the runs of non-whitespace characters
IsWord(token) == token[1] = "a"
Split(text) == SelectSeq(Encode(text), IsWord)

\* the test of the record loops with only its first half
IsEmptyOnly(text) == text = <<>>

\* not content or not content.strip()
IsBlank(text) == text = <<>> \/ \A k \in 1..Len(text) : text[k] = "s"

\* the record loops' call of _chunk_text(content): a record without content
\* is skipped before the call; otherwise tokens = self.tokenizer.encode(text)
ChunkCall ==
  /\ chunked.kind = "tokens"
  /\ chunked.pc = "call"
  /\ chunked' = IF IsBlank(chunked.text)
                 THEN [chunked EXCEPT !.pc = "returned", !.skipped = TRUE]
                 ELSE [chunked EXCEPT !.pc = "loop", !.units = Encode(chunked.text)]
  /\ UNCHANGED <<jobVars, dbVars, reindex, polled, crawl, embedded, answered, polls, uploads>>

\* the loop stepping by chunk_size + overlap
ChunkIterateWideStride ==
  /\ chunked.kind = "tokens"
  /\ chunked.pc = "loop"
  /\ LET i == chunked.i
         n == Len(chunked.units)
         chunk_tokens == SubSeq(chunked.units, i + 1, Min(i + chunked.chunk_size, n))
     IN chunked' =
          IF i >= n THEN [chunked EXCEPT !.pc = "returned"]
          ELSE [chunked EXCEPT
                  !.chunks = Append(@, chunk_tokens),
                  !.i = i + (chunked.chunk_size + chunked.overlap),
                  !.pc = IF i + chunked.chunk_size >= n THEN "returned" ELSE "loop"]
  /\ UNCHANGED <<jobVars, dbVars, reindex, polled, crawl, embedded, answered, polls, uploads>>

\* the loop without its break: every i of the range gives a chunk
ChunkIterateNoBreak ==
  /\ chunked.kind = "tokens"
  /\ chunked.pc = "loop"
  /\ LET i == chunked.i
         n == Len(chunked.units)
         chunk_tokens == SubSeq(chunked.units, i + 1, Min(i + chunked.chunk_size, n))
     IN chunked' =
          IF i >= n THEN [chunked EXCEPT !.pc = "returned"]
          ELSE [chunked EXCEPT
                  !.chunks = Append(@, chunk_tokens),
                  !.i = i + (chunked.chunk_size - chunked.overlap)]
  /\ UNCHANGED <<jobVars, dbVars, reindex, polled, crawl, embedded, answered, polls, uploads>>

\* _chunk_text, one pass of for i in range(0, len(tokens), chunk_size - overlap):
\* the chunk tokens[i:i + chunk_size] is appended (as the text it decodes to)
\* and the loop is left once i + chunk_size >= len(tokens)
ChunkIterate ==
  /\ chunked.kind = "tokens"
  /\ chunked.pc = "loop"
  /\ LET i == chunked.i
         n == Len(chunked.units)
         chunk_tokens == SubSeq(chunked.units, i + 1, Min(i + chunked.chunk_size, n))
     IN chunked' =
          IF i >= n THEN [chunked EXCEPT !.pc = "returned"]
          ELSE [chunked EXCEPT
                  !.chunks = Append(@, chunk_tokens),
                  !.i = i + (chunked.chunk_size - chunked.overlap),
                  !.pc = IF i + chunked.chunk_size >= n THEN "returned" ELSE "loop"]
  /\ UNCHANGED <<jobVars, dbVars, reindex, polled, crawl, embedded, answered, polls, uploads>>

\* chunk_document_content: words = content.split(); no words, no chunks
DocChunkCall ==
  /\ chunked.kind = "words"
  /\ chunked.pc = "call"
  /\ LET words == Split(chunked.text)
     IN chunked' = IF words = <<>> THEN [chunked EXCEPT !.pc = "returned"]
                   ELSE [chunked EXCEPT !.pc = "loop", !.units = words]
  /\ UNCHANGED <<jobVars, dbVars, reindex, polled, crawl, embedded, answered, polls, uploads>>

\* chunk_document_content, one pass of for i in range(0, len(words), chunk_size)
DocChunkIterate ==
  /\ chunked.kind = "words"
  /\ chunked.pc = "loop"
  /\ LET i == chunked.i
         n == Len(chunked.units)
     IN chunked' =
          IF i >= n THEN [chunked EXCEPT !.pc = "returned"]
          ELSE [chunked EXCEPT
                  !.chunks = Append(@, SubSeq(chunked.units, i + 1,
                                              Min(i + chunked.chunk_size, n))),
                  !.i = i + chunked.chunk_size]
  /\ UNCHANGED <<jobVars, dbVars, reindex, polled, crawl, embedded, answered, polls, uploads>>

\* a text and the chunker's arguments: _chunk_text with 0 <= overlap < chunk_size,
\* chunk_document_content with its chunk_size
InitChunk ==
  /\ jobs = <<>>
  /\ snapshot = <<>>
  /\ nextJob = 1
  /\ execs = <<>>
  /\ docjobs = <<>>
  /\ docsnap = <<>>
  /\ dbs = <<>>
  /\ indexes = {}
  /\ nextDb = 1
  /\ creqs = <<>>
  /\ builds = <<>>
  /\ reindex = NoReindex
  /\ polled = NoResponse
  /\ crawl = NoCrawl
  /\ polls = <<>>
  /\ uploads = NoUploads
  /\ embedded = NoEmbedding
  /\ answered = NoAnswer
  /\ \E text \in Texts, chunk_size \in 1..MaxChunkArg, overlap \in 0..(MaxChunkArg - 1),
        kind \in {"tokens", "words"} :
        /\ overlap < chunk_size
        /\ kind = "words" => overlap = 0
        /\ chunked = [kind |-> kind, text |-> text, chunk_size |-> chunk_size,
                      overlap |-> overlap, units |-> <<>>, i |-> 0, chunks |-> <<>>,
                      pc |-> "call", skipped |-> FALSE]

NextChunk ==
  \/ ChunkCall
  \/ ChunkIterate
  \/ DocChunkCall
  \/ DocChunkIterate

SpecChunk == InitChunk /\ [][NextChunk]_vars

\* ============================================================= embeddings

\* the vector the provider computes for a text
Embedding(text) == <<"vector", text>>

\* response.data of embeddings.create(input=batch): one item per input, in the
\* order of the input
ProviderResponse(batch) == [k \in 1..Len(batch) |-> Embedding(batch[k])]

\* the loop with the except branch returning what it has so far
EmbedCallPartial(ok) ==
  /\ embedded.pc = "loop"
  /\ embedded.i < Len(embedded.texts)
  /\ LET i == embedded.i
         batch == SubSeq(embedded.texts, i + 1,
                         Min(i + EmbedBatchSize, Len(embedded.texts)))
     IN embedded' =
          IF ok
          THEN [embedded EXCEPT
                  !.calls = Append(@, batch),
                  !.embeddings = @ \o ProviderResponse(batch),
                  !.i = i + EmbedBatchSize]
          ELSE [embedded EXCEPT
                  !.calls = Append(@, batch),
                  !.pc = "raised",
                  !.returned = embedded.embeddings]
  /\ UNCHANGED <<jobVars, dbVars, reindex, polled, crawl, chunked, answered, polls, uploads>>

\* _generate_embeddings, one pass of for i in range(0, len(texts), batch_size):
\* the provider is called with texts[i:i + batch_size]; its embeddings extend
\* the list, or its exception is logged and raised again
EmbedCall(ok) ==
  /\ embedded.pc = "loop"
  /\ embedded.i < Len(embedded.texts)
  /\ LET i == embedded.i
         batch == SubSeq(embedded.texts, i + 1,
                         Min(i + EmbedBatchSize, Len(embedded.texts)))
     IN embedded' =
          IF ok
          THEN [embedded EXCEPT
                  !.calls = Append(@, batch),
                  !.embeddings = @ \o ProviderResponse(batch),
                  !.i = i + EmbedBatchSize]
          ELSE [embedded EXCEPT
                  !.calls = Append(@, batch),
                  !.pc = "raised"]
  /\ UNCHANGED <<jobVars, dbVars, reindex, polled, crawl, chunked, answered, polls, uploads>>

\* _generate_embeddings: return embeddings
EmbedReturn ==
  /\ embedded.pc = "loop"
  /\ embedded.i >= Len(embedded.texts)
  /\ embedded' = [embedded EXCEPT !.pc = "returned", !.returned = embedded.embeddings]
  /\ UNCHANGED <<jobVars, dbVars, reindex, polled, crawl, chunked, answered, polls, uploads>>

\* a call with 0..MaxTexts texts, each text named by its position
InitEmbed ==
  /\ jobs = <<>>
  /\ snapshot = <<>>
  /\ nextJob = 1
  /\ execs = <<>>
  /\ docjobs = <<>>
  /\ docsnap = <<>>
  /\ dbs = <<>>
  /\ indexes = {}
  /\ nextDb = 1
  /\ creqs = <<>>
  /\ builds = <<>>
  /\ reindex = NoReindex
  /\ polled = NoResponse
  /\ crawl = NoCrawl
  /\ chunked = NoChunks
  /\ polls = <<>>
  /\ uploads = NoUploads
  /\ answered = NoAnswer
  /\ \E n \in 0..MaxTexts :
        embedded = [pc |-> "loop", texts |-> [k \in 1..n |-> k], i |-> 0,
                    embeddings |-> <<>>, calls |-> <<>>, returned |-> <<>>]

NextEmbed ==
  \/ \E ok \in BOOLEAN : EmbedCall(ok)
  \/ EmbedReturn

SpecEmbed == InitEmbed /\ [][NextEmbed]_vars

\* ======================================================= index quota

\* a database built before, with its index
OldDb == 10

\* the backend holds indexes of other applications, up to MaxOrphans indexes
\* left behind under the reserved prefix and the index of the old database,
\* between three below the limit and the limit; scrape job 1 has completed
InitQuota ==
  /\ jobs = [j \in {1} |-> FixtureJob(j)]
  /\ snapshot = [j \in {1} |-> <<5>>]
  /\ nextJob = 2
  /\ execs = <<>>
  /\ docjobs = [k \in {1} |-> [user_id |-> 1, status |-> "completed"]]
  /\ docsnap = [k \in {1} |-> DocContents]
  /\ dbs = [d \in {OldDb} |->
              [user_id |-> 1, status |-> "ready", azure_index_name |-> IndexName(OldDb),
               document_count |-> 1, scraping_job_id |-> 1]]
  /\ \E others \in 0..IndexLimit, orphans \in 0..MaxOrphans :
        /\ others + orphans + 1 \in (IndexLimit - 3)..IndexLimit
        /\ indexes = {ForeignIndex(k) : k \in 1..others}
                       \cup {OrphanIndex(k) : k \in 1..orphans}
                       \cup {IndexName(OldDb)}
  /\ nextDb = 1
  /\ creqs = <<>>
  /\ builds = <<>>
  /\ reindex = NoReindex
  /\ polled = NoResponse
  /\ crawl = NoCrawl
  /\ chunked = NoChunks
  /\ polls = <<>>
  /\ uploads = NoUploads
  /\ embedded = NoEmbedding
  /\ answered = NoAnswer

\* creates, builds and deletes; the backend refuses a create_index at its limit
NextQuota ==
  \/ \E inp \in LiveInputs : CreateValidate(inp)
  \/ \E d \in DOMAIN creqs, f \in FailChoices : CreateQuota(d, f)
  \/ \E d \in DOMAIN creqs, ok \in BOOLEAN :
        /\ ok => Cardinality(indexes) < IndexLimit
        /\ CreateIndexCall(d, ok)
  \/ \E d \in DOMAIN creqs : CreateInsert(d)
  \/ \E d \in 1..MaxDbs : BuildStep(d)
  \/ \E d \in DOMAIN dbs, ok \in BOOLEAN : DeleteDatabase(d, 1, ok)

SpecQuota == InitQuota /\ [][NextQuota]_vars

\* ============================================== requests and their answers

\* the ids asked about: scrape job 1 and the old database exist, the others
\* are unknown
AskJobIds == {1, 2}
AskDbIds == {OldDb, OldDb + 1}

\* what a search of the index comes back with
SearchHits == {<<>>, <<1>>}

\* an answer: the row the handler's SELECT found (found), the value the
\* service returned (ret for a bool or a row, results for a list) and the
\* HTTP status of the route
Answer(op, id, u, found, ret, code, results) ==
  [op |-> op, id |-> id, user |-> u, found |-> found, ret |-> ret,
   code |-> code, results |-> results]

\* GET /api/scrape/status/<job_id>: get_job_status, 404 when it returns None
AskJobStatus(j, u) ==
  /\ LET found == j \in DOMAIN jobs /\ jobs[j].user_id = u
     IN answered' = Answer("job_status", j, u, found, found,
                           IF found THEN 200 ELSE 404, <<>>)
  /\ UNCHANGED <<jobVars, dbVars, reindex, polled, crawl, chunked, embedded, polls, uploads>>

\* delete_scraping_job selecting and deleting the row by its id alone
AskDeleteJobAnyUser(j, u, rm) ==
  /\ LET found == j \in DOMAIN jobs
     IN /\ answered' = Answer("delete_job", j, u, found, found,
                              IF found THEN 200 ELSE 404, <<>>)
        /\ jobs' = IF found THEN Remove(jobs, j) ELSE jobs
        /\ snapshot' = IF found /\ rm THEN Remove(snapshot, j) ELSE snapshot
  /\ UNCHANGED <<nextJob, execs>>
  /\ UNCHANGED <<dbVars, reindex, polled, crawl, chunked, embedded, polls, uploads>>

\* DELETE /api/scrape/jobs/<job_id>: delete_scraping_job; no row for the id
\* and the user: False, 404; else the row is deleted and the data directory
\* removed if rmtree succeeds (rm), True
AskDeleteJob(j, u, rm) ==
  /\ LET found == j \in DOMAIN jobs /\ jobs[j].user_id = u
     IN /\ answered' = Answer("delete_job", j, u, found, found,
                              IF found THEN 200 ELSE 404, <<>>)
        /\ jobs' = IF found THEN Remove(jobs, j) ELSE jobs
        /\ snapshot' = IF found /\ rm THEN Remove(snapshot, j) ELSE snapshot
  /\ UNCHANGED <<nextJob, execs>>
  /\ UNCHANGED <<dbVars, reindex, polled, crawl, chunked, embedded, polls, uploads>>

\* GET /api/vector-dbs/<db_id>/status: get_database_status
AskDatabaseStatus(d, u) ==
  /\ LET found == d \in DOMAIN dbs /\ dbs[d].user_id = u
     IN answered' = Answer("database_status", d, u, found, found,
                           IF found THEN 200 ELSE 404, <<>>)
  /\ UNCHANGED <<jobVars, dbVars, reindex, polled, crawl, chunked, embedded, polls, uploads>>

\* delete_database giving up when the index cannot be deleted
AskDeleteDatabaseStrict(d, u, ok) ==
  /\ LET found == d \in DOMAIN dbs /\ dbs[d].user_id = u
     IN /\ answered' = Answer("delete_database", d, u, found, found /\ ok,
                              IF found /\ ok THEN 200 ELSE IF found THEN 500 ELSE 404, <<>>)
        /\ indexes' = IF found /\ ok THEN indexes \ {dbs[d].azure_index_name} ELSE indexes
        /\ dbs' = IF found /\ ok THEN Remove(dbs, d) ELSE dbs
  /\ UNCHANGED <<docjobs, docsnap, nextDb, creqs, builds>>
  /\ UNCHANGED <<jobVars, reindex, polled, crawl, chunked, embedded, polls, uploads>>

\* DELETE /api/vector-dbs/<db_id>: delete_database; no row for the id and the
\* user: False, 404; else delete_index (its failure is logged), DELETE of the
\* row, True
AskDeleteDatabase(d, u, ok) ==
  /\ LET found == d \in DOMAIN dbs /\ dbs[d].user_id = u
     IN /\ answered' = Answer("delete_database", d, u, found, found,
                              IF found THEN 200 ELSE 404, <<>>)
        /\ indexes' = IF found /\ ok THEN indexes \ {dbs[d].azure_index_name} ELSE indexes
        /\ dbs' = IF found THEN Remove(dbs, d) ELSE dbs
  /\ UNCHANGED <<docjobs, docsnap, nextDb, creqs, builds>>
  /\ UNCHANGED <<jobVars, reindex, polled, crawl, chunked, embedded, polls, uploads>>

\* POST /api/vector-dbs/<db_id>/search with a query: search() selects the
\* row by id, user and status 'ready'; without a row it raises inside its own
\* try, whose except branch returns [], as it does when the embedding or the
\* index search raises (ok false, or the index is gone); the route answers
\* {"results": results} with status 200
AskSearch(d, u, hits, ok) ==
  /\ LET found == d \in DOMAIN dbs /\ dbs[d].user_id = u /\ dbs[d].status = "ready"
         results == IF found /\ ok /\ dbs[d].azure_index_name \in indexes
                    THEN hits ELSE <<>>
     IN answered' = Answer("search", d, u, found, TRUE, 200, results)
  /\ UNCHANGED <<jobVars, dbVars, reindex, polled, crawl, chunked, embedded, polls, uploads>>

\* POST /api/vector-dbs/create: the status of the route's answer, 500 when
\* create_database_async raised, 200 when it returned the id (0: no answer yet)
CreateResponse(r) ==
  IF r.pc = "failed" THEN 500 ELSE IF r.pc = "returned" THEN 200 ELSE 0

\* the create requests made: for the job of the user, for an unknown job, and
\* by every user for job 1
AskInputs ==
  {[user |-> u, hybrid |-> FALSE, job |-> j, docs |-> <<>>] : u \in Users, j \in AskJobIds}

\* scrape job 1 of user 1 has completed; the old database of user 1 is being
\* built, ready or in error
InitAsk ==
  /\ jobs = [j \in {1} |-> FixtureJob(j)]
  /\ snapshot = [j \in {1} |-> <<5>>]
  /\ nextJob = 2
  /\ execs = <<>>
  /\ docjobs = <<>>
  /\ docsnap = <<>>
  /\ \E st \in {"building", "ready", "error"} :
        dbs = [d \in {OldDb} |->
                 [user_id |-> 1, status |-> st, azure_index_name |-> IndexName(OldDb),
                  document_count |-> 0, scraping_job_id |-> 1]]
  /\ indexes = {IndexName(OldDb)}
  /\ nextDb = 1
  /\ creqs = <<>>
  /\ builds = <<>>
  /\ reindex = NoReindex
  /\ polled = NoResponse
  /\ crawl = NoCrawl
  /\ chunked = NoChunks
  /\ polls = <<>>
  /\ uploads = NoUploads
  /\ embedded = NoEmbedding
  /\ answered = NoAnswer

NextAsk ==
  \/ \E j \in AskJobIds, u \in Users : AskJobStatus(j, u)
  \/ \E j \in AskJobIds, u \in Users, rm \in BOOLEAN : AskDeleteJob(j, u, rm)
  \/ \E d \in AskDbIds, u \in Users : AskDatabaseStatus(d, u)
  \/ \E d \in AskDbIds, u \in Users, ok \in BOOLEAN : AskDeleteDatabase(d, u, ok)
  \/ \E d \in AskDbIds, u \in Users, hits \in SearchHits, ok \in BOOLEAN :
        AskSearch(d, u, hits, ok)
  \/ \E inp \in AskInputs : CreateValidate(inp)
  \/ \E d \in DOMAIN creqs : CreateQuota(d, {})
  \/ \E d \in DOMAIN creqs, ok \in BOOLEAN : CreateIndexCall(d, ok)
  \/ \E d \in DOMAIN creqs : CreateInsert(d)

SpecAsk == InitAsk /\ [][NextAsk]_vars

\* =========================================================== one build

\* snapshots of the completed job: pages of 101, 2 and 1 chunks and empty
\* pages, in different orders
BuildSnapshots == { <<81000, 0, 5>>, <<1500, 81000>>, <<5, 1500, 0>> }

InitBuild ==
  /\ jobs = [j \in {1} |-> FixtureJob(j)]
  /\ snapshot \in [{1} -> BuildSnapshots]
  /\ nextJob = 2
  /\ execs = <<>>
  /\ docjobs = [k \in {1} |-> [user_id |-> 1, status |-> "completed"]]
  /\ docsnap = [k \in {1} |-> DocContents]
  /\ dbs = <<>>
  /\ indexes = {}
  /\ nextDb = 1
  /\ creqs = <<>>
  /\ builds = <<>>
  /\ reindex = NoReindex
  /\ polled = NoResponse
  /\ crawl = NoCrawl
  /\ chunked = NoChunks
  /\ polls = <<>>
  /\ uploads = NoUploads
  /\ embedded = NoEmbedding
  /\ answered = NoAnswer

\* a create from the job, alone or with the document job, and its build
NextBuild ==
  \/ \E inp \in LiveInputs : CreateValidate(inp)
  \/ \E d \in DOMAIN creqs : CreateQuota(d, {})
  \/ \E d \in DOMAIN creqs, ok \in BOOLEAN : CreateIndexCall(d, ok)
  \/ \E d \in DOMAIN creqs : CreateInsert(d)
  \/ \E d \in 1..MaxDbs : BuildStep(d)

SpecBuild == InitBuild /\ [][NextBuild]_vars

\* ===================================================== database polls

\* get_database_status: SELECT status, document_count ... WHERE id AND user_id;
\* the dict of the row (document_count "or 0"), or None when there is no row
GetDatabaseStatus(d, u) ==
  IF d \in DOMAIN dbs /\ dbs[d].user_id = u
  THEN [db |-> d, user |-> u, found |-> TRUE, status |-> dbs[d].status,
        document_count |-> dbs[d].document_count]
  ELSE [db |-> d, user |-> u, found |-> FALSE, status |-> "none", document_count |-> 0]

\* GET /api/vector-dbs/<db_id>/status answered while the build thread runs
PollDatabase(d, u) ==
  /\ Len(polls) < MaxPolls
  /\ polls' = Append(polls, GetDatabaseStatus(d, u))
  /\ UNCHANGED <<jobVars, dbVars, reindex, polled, crawl, chunked, embedded, answered, uploads>>

\* a create of user 1 from the completed job, alone or with the document job,
\* has validated its sources; its database will have id 1
InitWatch ==
  /\ jobs = [j \in {1} |-> FixtureJob(j)]
  /\ snapshot \in [{1} -> BuildSnapshots]
  /\ nextJob = 2
  /\ execs = <<>>
  /\ docjobs = [k \in {1} |-> [user_id |-> 1, status |-> "completed"]]
  /\ docsnap = [k \in {1} |-> DocContents]
  /\ dbs = <<>>
  /\ indexes = {}
  /\ nextDb = MaxDbs + 1
  /\ \E inp \in LiveInputs :
        creqs = [d \in {1} |-> [user |-> inp.user, hybrid |-> inp.hybrid, job |-> inp.job,
                                docs |-> inp.docs, pc |-> "quota"]]
  /\ builds = <<>>
  /\ reindex = NoReindex
  /\ polled = NoResponse
  /\ crawl = NoCrawl
  /\ chunked = NoChunks
  /\ polls = <<>>
  /\ uploads = NoUploads
  /\ embedded = NoEmbedding
  /\ answered = NoAnswer

\* the create and its build, polled by the owner and by other users
NextWatch ==
  \/ \E d \in DOMAIN creqs : CreateQuota(d, {})
  \/ \E d \in DOMAIN creqs, ok \in BOOLEAN : CreateIndexCall(d, ok)
  \/ \E d \in DOMAIN creqs : CreateInsert(d)
  \/ \E d \in DOMAIN creqs : BuildStep(d)
  \/ \E d \in DOMAIN creqs, u \in Users : PollDatabase(d, u)

SpecWatch == InitWatch /\ [][NextWatch]_vars

\* ================================================== concurrent creates

\* MaxCreates requests of user 1 have passed the validation of their sources
\* and are about to check the quota; the backend holds indexes of other
\* applications, between three below the limit and one below it
InitRace ==
  /\ jobs = [j \in {1} |-> FixtureJob(j)]
  /\ snapshot = [j \in {1} |-> <<5>>]
  /\ nextJob = 2
  /\ execs = <<>>
  /\ docjobs = [k \in {1} |-> [user_id |-> 1, status |-> "completed"]]
  /\ docsnap = [k \in {1} |-> DocContents]
  /\ dbs = <<>>
  /\ \E others \in (IndexLimit - 3)..(IndexLimit - 1) :
        indexes = {ForeignIndex(k) : k \in 1..others}
  /\ nextDb = MaxCreates + 1
  /\ \E inps \in [1..MaxCreates -> LiveInputs] :
        creqs = [d \in 1..MaxCreates |->
                   [user |-> inps[d].user, hybrid |-> inps[d].hybrid, job |-> inps[d].job,
                    docs |-> inps[d].docs, pc |-> "quota"]]
  /\ builds = <<>>
  /\ reindex = NoReindex
  /\ polled = NoResponse
  /\ crawl = NoCrawl
  /\ chunked = NoChunks
  /\ polls = <<>>
  /\ uploads = NoUploads
  /\ embedded = NoEmbedding
  /\ answered = NoAnswer

\* the creates run side by side; the backend refuses a create_index at its limit
NextRace ==
  \/ \E d \in DOMAIN creqs : CreateQuota(d, {})
  \/ \E d \in DOMAIN creqs, ok \in BOOLEAN :
        /\ ok => Cardinality(indexes) < IndexLimit
        /\ CreateIndexCall(d, ok)
  \/ \E d \in DOMAIN creqs : CreateInsert(d)
  \/ \E d \in DOMAIN creqs : BuildStep(d)

SpecRace == InitRace /\ [][NextRace]_vars

\* ======================================================= failing creates

\* the INSERT of the 'building' row (or of a row of vector_database_sources)
\* raises: nothing is committed, the except branch logs and re-raises
CreateInsertRaises(d) ==
  /\ creqs[d].pc = "insert"
  /\ creqs' = [creqs EXCEPT ![d].pc = "failed"]
  /\ UNCHANGED <<docjobs, docsnap, dbs, indexes, nextDb, builds>>
  /\ UNCHANGED jobVars
  /\ UNCHANGED procVars

\* the requests of SpecBuild and one naming a job that does not exist
AbortInputs ==
  LiveInputs \cup { [user |-> 1, hybrid |-> FALSE, job |-> 2, docs |-> <<>>] }

\* a create that may fail at each of its steps, and its build
NextAbort ==
  \/ \E inp \in AbortInputs : CreateValidate(inp)
  \/ \E d \in DOMAIN creqs : CreateQuota(d, {})
  \/ \E d \in DOMAIN creqs, ok \in BOOLEAN : CreateIndexCall(d, ok)
  \/ \E d \in DOMAIN creqs : CreateInsert(d)
  \/ \E d \in DOMAIN creqs : CreateInsertRaises(d)
  \/ \E d \in 1..MaxDbs : BuildStep(d)

SpecAbort == InitBuild /\ [][NextAbort]_vars

\* ====================================================== document upload

\* a file of the request: its filename ("" for an empty file field) and what
\* validate_document says of its size, extension and content
UploadFiles ==
  {[filename |-> n, valid |-> v] : n \in {"a.pdf", "b.md"}, v \in BOOLEAN}
    \cup {[filename |-> "", valid |-> TRUE]}
UploadRequests ==
  UNION {[1..n -> UploadFiles] : n \in 0..MaxFiles}

\* upload_document: the blob name is made of the user, the second of the
\* upload and the filename; the files of one request share user and second
BlobName(file) == file.filename

\* for blob in uploaded_blobs: document_processor.delete_document(blob), which
\* logs a failed deletion and returns False; failing = the blobs whose
\* deletion fails
DeleteUploaded(blobs, uploaded_blobs, failing) ==
  blobs \ ({uploaded_blobs[i] : i \in 1..Len(uploaded_blobs)} \ failing)

\* the keys of file_metadata as upload_documents builds it, and the ones
\* save_processed_documents_to_storage reads with file_metadata[...]
FileMetadataKeys ==
  {"user_id", "uploaded_files", "file_count", "total_chunks", "upload_timestamp"}
SaveReadsKeys == {"filename", "file_size", "file_type"}

\* upload_documents: the checks on request.files before the loop
UploadBegin ==
  /\ uploads.pc = "begin"
  /\ uploads' =
       IF \A i \in 1..Len(uploads.files) : uploads.files[i].filename = ""
       THEN [uploads EXCEPT !.pc = "returned", !.code = 400]
       ELSE [uploads EXCEPT !.pc = "loop"]
  /\ UNCHANGED <<jobVars, dbVars, reindex, polled, crawl, chunked, embedded, answered, polls>>

\* one pass of the loop over the files: validation, then the upload of the
\* blob; a failed upload deletes the blobs uploaded so far and answers 500
UploadNext(ok, failing) ==
  /\ uploads.pc = "loop"
  /\ LET file == uploads.files[uploads.k]
         last == uploads.k = Len(uploads.files)
         on == [uploads EXCEPT !.k = @ + 1, !.pc = IF last THEN "process" ELSE "loop"]
     IN uploads' =
          IF file.filename = "" THEN on
          ELSE IF ~file.valid THEN [uploads EXCEPT !.pc = "returned", !.code = 400]
          ELSE IF ok
          THEN [on EXCEPT !.blobs = @ \cup {BlobName(file)},
                          !.uploaded_blobs = Append(@, BlobName(file))]
          ELSE [uploads EXCEPT
                  !.blobs = DeleteUploaded(@, uploads.uploaded_blobs, failing),
                  !.pc = "returned", !.code = 500]
  /\ UNCHANGED <<jobVars, dbVars, reindex, polled, crawl, chunked, embedded, answered, polls>>

\* after the loop: process_uploaded_documents (a blob that cannot be read or
\* parsed is skipped; readable = the positions that give a document), then
\* save_processed_documents_to_storage; no document or an exception deletes the
\* uploaded blobs
UploadProcess(readable, stored, failing) ==
  /\ uploads.pc = "process"
  /\ readable \subseteq 1..Len(uploads.uploaded_blobs)
  /\ LET saved == SaveReadsKeys \subseteq FileMetadataKeys /\ stored
         cleaned == DeleteUploaded(uploads.blobs, uploads.uploaded_blobs, failing)
     IN uploads' =
          IF readable = {}
          THEN [uploads EXCEPT !.blobs = cleaned, !.pc = "returned", !.code = 400]
          ELSE IF saved
          THEN [uploads EXCEPT !.pc = "returned", !.code = 200]
          ELSE [uploads EXCEPT !.blobs = cleaned, !.pc = "returned", !.code = 500]
  /\ UNCHANGED <<jobVars, dbVars, reindex, polled, crawl, chunked, embedded, answered, polls>>

\* POST /api/documents/upload has been received with its files; the container
\* holds no blob of the request's names
InitUpload ==
  /\ jobs = <<>>
  /\ snapshot = <<>>
  /\ nextJob = 1
  /\ execs = <<>>
  /\ docjobs = <<>>
  /\ docsnap = <<>>
  /\ dbs = <<>>
  /\ indexes = {}
  /\ nextDb = 1
  /\ creqs = <<>>
  /\ builds = <<>>
  /\ reindex = NoReindex
  /\ polled = NoResponse
  /\ crawl = NoCrawl
  /\ chunked = NoChunks
  /\ polls = <<>>
  /\ embedded = NoEmbedding
  /\ answered = NoAnswer
  /\ \E files \in UploadRequests :
        uploads = [pc |-> "begin", files |-> files, k |-> 1, uploaded_blobs |-> <<>>,
                   blobs |-> {}, code |-> 0]

NextUpload ==
  \/ UploadBegin
  \/ \E ok \in BOOLEAN, failing \in SUBSET uploads.blobs : UploadNext(ok, failing)
  \/ \E readable \in SUBSET (1..MaxFiles), stored \in BOOLEAN,
        failing \in SUBSET uploads.blobs : UploadProcess(readable, stored, failing)

SpecUpload == InitUpload /\ [][NextUpload]_vars

\* ================================================================ claims

\* --- scrape jobs (SpecJob)

\* an execution is active once it has loaded its job and until it has written
\* the job's terminal status
ActivePcs == {"dispatch", "crawl", "save", "complete"}
ActiveExecutions(j) == {e \in DOMAIN execs : execs[e].job = j /\ execs[e].pc \in ActivePcs}

\* C1: for every job id at most one pipeline execution is active at any time,
\* however often start_scraping_job is called for that job
C1_AtMostOneActiveExecution ==
  \A j \in 1..MaxJobs : Cardinality(ActiveExecutions(j)) <= 1

TerminalStatuses == {"completed", "failed"}

\* C2: once a job's status is completed or failed, no step changes that status
\* while the row exists
C2_TerminalStatusIsFinal ==
  [][\A j \in DOMAIN jobs \cap DOMAIN jobs' :
        jobs[j].status \in TerminalStatuses => jobs'[j].status = jobs[j].status]_vars

\* --- vector databases (SpecDb)

\* C3: a database's status changes only from building to ready or from building
\* to error, and a finished build has left the status ready or error
C3_StatusChangesOnce ==
  /\ [][\A d \in DOMAIN dbs \cap DOMAIN dbs' :
           dbs'[d].status # dbs[d].status
             => dbs[d].status = "building" /\ dbs'[d].status \in {"ready", "error"}]_vars
  /\ [](\A d \in DOMAIN dbs \cap DOMAIN builds :
           builds[d].pc = "done" => dbs[d].status \in {"ready", "error"})

C3_Witness ==
  \E d \in DOMAIN dbs \cap DOMAIN builds :
     /\ builds[d].pc = "done"
     /\ dbs[d].status = "ready"
     /\ builds[d].uploaded > UploadBatchSize

\* the request names a scrape job or a document job that is not a completed job
\* of the caller (job rows only ever leave the tables in SpecDb, so a source that
\* is not valid in the initial tables is not valid at the time of the call)
NamesInvalidSource(r) ==
  \/ /\ r.job # NoJob
     /\ ~(FixtureJob(r.job).user_id = r.user /\ FixtureJob(r.job).status = "completed")
  \/ \E k \in 1..Len(r.docs) :
        ~(docjobs[r.docs[k]].user_id = r.user /\ docjobs[r.docs[k]].status = "completed")

\* C4: a create that names a source job which is not completed or not owned by
\* the caller fails in the handler: no row, no index and no build exist for it
C4_InvalidSourceCreatesNothing ==
  \A d \in DOMAIN creqs :
     NamesInvalidSource(creqs[d])
       => /\ creqs[d].pc = "failed"
          /\ d \notin DOMAIN dbs
          /\ IndexName(d) \notin indexes
          /\ d \notin DOMAIN builds

C4_Witness ==
  \E d \in DOMAIN creqs :
     /\ NamesInvalidSource(creqs[d])
     /\ ~creqs[d].hybrid
     /\ creqs[d].job = 2
     /\ creqs[d].pc = "failed"

\* C5: every row has its own index name, no two rows share one, and the index
\* of every building or ready row is present in the backend
C5_IndexInvariant ==
  /\ \A d \in DOMAIN dbs : dbs[d].azure_index_name = IndexName(d)
  /\ \A d1, d2 \in DOMAIN dbs :
        d1 # d2 => dbs[d1].azure_index_name # dbs[d2].azure_index_name
  /\ \A d \in DOMAIN dbs :
        dbs[d].status \in {"building", "ready"} => dbs[d].azure_index_name \in indexes

ReferencedIndexes == {dbs[d].azure_index_name : d \in DOMAIN dbs}
OrphanedIndexes == {n \in indexes : n.pre /\ n \notin ReferencedIndexes}

\* C6: a reclaim, for any owner argument, leaves every referenced index in the
\* backend, and when none of its deletions fails it removes exactly the
\* prefixed indexes no row refers to
C6_ReclaimDeletesExactlyOrphans ==
  [][\A u \in Users \cup {NoUser} :
        /\ \A f \in FailChoices :
              ReclaimOrphans(u, f) => (ReferencedIndexes \cap indexes) \subseteq indexes'
        /\ ReclaimOrphans(u, {}) => indexes' = indexes \ OrphanedIndexes]_vars

\* C7: a build that found a source's snapshot file missing never makes the
\* database ready and ends with the database in error
C7_MissingSnapshotIsFatal ==
  \A d \in DOMAIN dbs \cap DOMAIN builds :
     builds[d].missing
       => /\ dbs[d].status # "ready"
          /\ builds[d].pc = "done" => dbs[d].status = "error"

\* C8: after a failed batch upload the build uploads nothing more, is over, and
\* the database is in error
C8_UploadFailureIsFatal ==
  /\ [](\A d \in DOMAIN builds :
           builds[d].upload_failed
             => /\ builds[d].pc = "done"
                /\ d \in DOMAIN dbs => dbs[d].status = "error")
  /\ [][\A d \in DOMAIN builds :
           builds[d].upload_failed => builds'[d].uploaded = builds[d].uploaded]_vars

C8_Witness ==
  \E d \in DOMAIN dbs \cap DOMAIN builds :
     /\ builds[d].upload_failed
     /\ IndexName(d) \in indexes
     /\ builds[d].uploaded = 0
     /\ DocumentsLen(builds[d].documents) > UploadBatchSize
     /\ dbs[d].status = "error"

\* the records of processed source si whose embedding call was made
BlocksOf(b, si, i) == {k \in 1..Len(b.documents) : b.documents[k].src = <<si, i>>}
SomeEmbeddingFailed(b) == \E si \in 1..Len(b.loaded) : b.loaded[si].failing # {}

\* C9: in a build where the embedding of some record failed, the failed records
\* have no document, every other record with content has its documents, and the
\* build still ends ready unless an upload fails
C9_EmbeddingFailureSkipsRecord ==
  \A d \in DOMAIN builds :
     LET b == builds[d] IN
     SomeEmbeddingFailed(b)
       => /\ \A si \in 1..Len(b.loaded) :
                \A i \in NonEmptyRecords(b.loaded[si].results) :
                   IF i \in b.loaded[si].failing
                   THEN BlocksOf(b, si, i) = {}
                   ELSE /\ Cardinality(BlocksOf(b, si, i)) = 1
                        /\ \A k \in BlocksOf(b, si, i) : b.documents[k].n >= 1
          /\ (b.pc = "done" /\ ~b.upload_failed /\ d \in DOMAIN dbs)
                => dbs[d].status = "ready"

C9_Witness ==
  \E d \in DOMAIN dbs \cap DOMAIN builds :
     /\ ~builds[d].hybrid
     /\ builds[d].pc = "done"
     /\ Len(builds[d].loaded) = 1
     /\ builds[d].loaded[1].failing = {1}
     /\ BlocksOf(builds[d], 1, 3) # {}
     /\ dbs[d].status = "ready"

\* the number of source records of a build whose embedding succeeded
RECURSIVE EmbeddedRecords(_)
EmbeddedRecords(loaded) ==
  IF loaded = <<>> THEN 0
  ELSE Cardinality(NonEmptyRecords(Head(loaded).results) \ Head(loaded).failing)
       + EmbeddedRecords(Tail(loaded))

\* C10: the stored document_count of a ready database is the number of source
\* records embedded, and it is still 0 while the database is building
C10_DocumentCountIsRecordCount ==
  \A d \in DOMAIN dbs \cap DOMAIN builds :
     /\ dbs[d].status = "ready"
          => dbs[d].document_count = EmbeddedRecords(builds[d].loaded)
     /\ dbs[d].status = "building" => dbs[d].document_count = 0

\* --- repeated indexing (SpecIndex)

\* C11: when the indexing step has run twice to the end for the same snapshot
\* and database id, both runs produced the same set of document ids and
\* uploaded the same number of documents, and the index holds exactly those
\* documents, no record's chunk under two ids
C11_ReindexingIsIdempotent ==
  LET runs == reindex.runs
      store == reindex.store
  IN (Len(runs) >= 2 /\ runs[1].completed /\ runs[2].completed)
       => /\ runs[2].ids = runs[1].ids
          /\ runs[2].uploaded = runs[1].uploaded
          /\ DOMAIN store = runs[2].ids
          /\ \A a, b \in DOMAIN store : store[a] = store[b] => a = b

\* --- status polls (SpecPoll)

\* C12: the progress values of successive status responses never decrease, and
\* a response with status completed carries progress 100
C12_ProgressEndsAt100 ==
  /\ [][(polled.code = 200 /\ polled'.code = 200)
          => polled'.progress >= polled.progress]_vars
  /\ [](polled.code = 200 /\ polled.status = "completed" => polled.progress = 100)

\* C13: a response with status failed carries a non-empty message
C13_FailedHasMessage ==
  (polled.code = 200 /\ polled.status = "failed") => polled.message # ""

\* --- background threads (SpecLive)

\* every thread started so far has ended, every job that was started and still
\* has its row is completed or failed, every database row is ready or error
AllThreadsEnded ==
  /\ \A e \in DOMAIN execs : execs[e].pc = "done"
  /\ \A d \in DOMAIN builds : builds[d].pc = "done"
  /\ \A e \in DOMAIN execs :
        execs[e].job \in DOMAIN jobs => jobs[execs[e].job].status \in TerminalStatuses
  /\ \A d \in DOMAIN dbs : dbs[d].status \in {"ready", "error"}

C15_DeepCrawlBounds ==
  crawl.mode = "deep"
    => /\ \A i, k \in 1..Len(crawl.fetched) :
             crawl.fetched[i].url = crawl.fetched[k].url => i = k
       /\ \A i \in 1..Len(crawl.fetched) : crawl.fetched[i].depth <= crawl.max_depth
       /\ Len(crawl.fetched) <= crawl.max_pages

C15_Witness ==
  /\ crawl.mode = "deep"
  /\ crawl.pc = "returned"
  /\ crawl.max_depth = 1
  /\ Len(crawl.fetched) = crawl.max_pages
  /\ crawl.to_scrape # <<>>
  /\ \E i \in 1..Len(crawl.fetched) : crawl.fetched[i].outcome = "raise"
  /\ \E i \in 1..Len(crawl.fetched) : crawl.fetched[i].depth = 1

\* C16: every URL in the queue and every URL fetched is the seed or has the
\* seed's host
C16_DeepCrawlStaysOnHost ==
  crawl.mode = "deep"
    => /\ \A i \in 1..Len(crawl.to_scrape) :
             \/ crawl.to_scrape[i][1] = crawl.seed
             \/ Netloc(crawl.to_scrape[i][1]) = Netloc(crawl.seed)
       /\ \A i \in 1..Len(crawl.fetched) :
             \/ crawl.fetched[i].url = crawl.seed
             \/ Netloc(crawl.fetched[i].url) = Netloc(crawl.seed)

C16_Witness ==
  /\ crawl.mode = "deep"
  /\ crawl.pc = "returned"
  /\ Len(crawl.fetched) >= 2
  /\ crawl.fetched[1].offsite
  /\ crawl.fetched[2].offsite
  /\ crawl.fetched[2].depth < crawl.max_depth

\* the pages whose fetch succeeded, in the order of the fetches
RECURSIVE SucceededFetches(_)
SucceededFetches(log) ==
  IF log = <<>> THEN <<>>
  ELSE (IF Head(log).outcome = "ok"
        THEN <<[url |-> Head(log).url, depth |-> Head(log).depth]>> ELSE <<>>)
       \o SucceededFetches(Tail(log))

\* C17: a deep crawl whose crawler started returns success with exactly the
\* pages whose fetch succeeded, and returns only when the queue is empty or
\* max_pages URLs were fetched, whichever fetches failed
C17_FailedFetchIsSkipped ==
  (crawl.mode = "deep" /\ crawl.pc = "returned" /\ crawl.entered)
    => /\ crawl.success
       /\ crawl.results = SucceededFetches(crawl.fetched)
       /\ ~DeepLoopGoesOn(crawl)

C17_Witness ==
  /\ crawl.mode = "deep"
  /\ crawl.pc = "returned"
  /\ Len(crawl.fetched) = 3
  /\ crawl.fetched[1].outcome = "ok"
  /\ crawl.fetched[2].outcome = "raise"
  /\ crawl.fetched[3].outcome = "ok"
  /\ Len(crawl.results) = 2

\* --- sitemap crawl (SpecSitemap)

\* the URLs of the fetches that succeeded, in the order of the fetches
RECURSIVE SucceededUrls(_)
SucceededUrls(log) ==
  IF log = <<>> THEN <<>>
  ELSE (IF Head(log).outcome = "ok" THEN <<Head(log).url>> ELSE <<>>)
       \o SucceededUrls(Tail(log))

RECURSIVE DropOverlaps(_, _)
DropOverlaps(chunks, overlap) ==
  IF chunks = <<>> THEN <<>>
  ELSE <<SubSeq(Head(chunks), overlap + 1, Len(Head(chunks)))>>
       \o DropOverlaps(Tail(chunks), overlap)
Reassembled(chunks, overlap) ==
  IF chunks = <<>> THEN <<>>
  ELSE Head(chunks) \o Decode(DropOverlaps(Tail(chunks), overlap))

\* C19: the chunks returned for a text cover its tokens in order, each chunk
\* beginning with the last overlap tokens of the one before it, so that the
\* chunks without these repeats are the token sequence of the text, and no
\* chunk has more than chunk_size tokens
C19_ChunksCoverText ==
  (chunked.kind = "tokens" /\ chunked.pc = "returned" /\ ~chunked.skipped)
    => /\ Reassembled(chunked.chunks, chunked.overlap) = Encode(chunked.text)
       /\ \A k \in 1..Len(chunked.chunks) :
             /\ Len(chunked.chunks[k]) <= chunked.chunk_size
             /\ chunked.chunks[k] # <<>>
       /\ \A k \in 1..(Len(chunked.chunks) - 1) :
             /\ Len(chunked.chunks[k]) = chunked.chunk_size
             /\ SubSeq(chunked.chunks[k + 1], 1, chunked.overlap)
                  = SubSeq(chunked.chunks[k], chunked.chunk_size - chunked.overlap + 1,
                           chunked.chunk_size)

C19_Witness ==
  /\ chunked.kind = "tokens"
  /\ chunked.pc = "returned"
  /\ chunked.overlap > 0
  /\ Len(chunked.chunks) >= 2
  /\ Len(chunked.chunks[Len(chunked.chunks)]) < chunked.chunk_size

RECURSIVE Concat(_)
Concat(seqs) == IF seqs = <<>> THEN <<>> ELSE Head(seqs) \o Concat(Tail(seqs))

\* C21: a call that returns gives one vector per text in the order of the
\* texts; the provider is called with consecutive pieces of at most 10 texts,
\* all but the last of exactly 10; a call in which a provider call fails
\* returns no vector
C21_EmbedIsOneToOneOrNothing ==
  embedded.pc # "none" =>
    /\ \A c \in 1..Len(embedded.calls) :
          /\ Len(embedded.calls[c]) \in 1..EmbedBatchSize
          /\ embedded.calls[c] =
               SubSeq(embedded.texts, (c - 1) * EmbedBatchSize + 1,
                      (c - 1) * EmbedBatchSize + Len(embedded.calls[c]))
    /\ embedded.pc = "returned" =>
          /\ Concat(embedded.calls) = embedded.texts
          /\ Len(embedded.returned) = Len(embedded.texts)
          /\ \A k \in 1..Len(embedded.texts) :
                embedded.returned[k] = <<"vector", embedded.texts[k]>>
    /\ embedded.pc = "raised" => embedded.returned = <<>>

C21_Witness ==
  /\ embedded.pc = "returned"
  /\ Len(embedded.calls) = 3
  /\ Len(embedded.calls[3]) < EmbedBatchSize

\* --- index quota (SpecQuota)

\* the indexes under the reserved prefix that no row names
Unreferenced ==
  {n \in indexes : n.pre /\ \A d \in DOMAIN dbs : dbs[d].azure_index_name # n}

\* C22: a create that finds the index count at the limit deletes indexes that
\* no row names and nothing else (all of them but at most one whose deletion
\* fails), goes on to create its index only if the count is then below the
\* limit and fails otherwise; a create that has failed has made no index
C22_QuotaReclaimThenRecheck ==
  /\ [][\A d \in DOMAIN creqs :
          (/\ creqs[d].pc = "quota"
           /\ creqs'[d].pc # "quota"
           /\ Cardinality(indexes) >= IndexLimit)
            => /\ indexes' \subseteq indexes
               /\ (indexes \ indexes') \subseteq Unreferenced
               /\ Cardinality(Unreferenced \cap indexes') <= 1
               /\ creqs'[d].pc = "create" <=> Cardinality(indexes') < IndexLimit
               /\ creqs'[d].pc \in {"create", "failed"}]_vars
  /\ [](\A d \in DOMAIN creqs : creqs[d].pc = "failed" => IndexName(d) \notin indexes)

C22_Witness ==
  /\ Cardinality(indexes) = IndexLimit - 1
  /\ OrphanIndex(1) \notin indexes
  /\ OrphanIndex(2) \in indexes
  /\ \E d \in DOMAIN creqs : creqs[d].pc = "create"

\* --- requests and their answers (SpecAsk)

\* C24: a delete of a database by its owner returns true and the row is gone,
\* also when the index could not be deleted and is still in the backend
C24_DeleteSurvivesIndexFailure ==
  (answered.op = "delete_database" /\ answered.found)
    => /\ answered.ret
       /\ answered.code = 200
       /\ answered.id \notin DOMAIN dbs

C24_Witness ==
  /\ answered.op = "delete_database"
  /\ answered.found
  /\ answered.ret
  /\ answered.id = OldDb
  /\ OldDb \notin DOMAIN dbs
  /\ IndexName(OldDb) \in indexes

\* the request just answered was about a job or database that does not exist
\* or belongs to another user
AskedForeignJob == answered'.id \notin DOMAIN jobs \/ jobs[answered'.id].user_id # answered'.user
AskedForeignDb == answered'.id \notin DOMAIN dbs \/ dbs[answered'.id].user_id # answered'.user

\* C25: a search of a database that is not the caller's or not ready is
\* answered with an error status and without results, so that it cannot be
\* taken for a search that found nothing
C25_UnauthorizedSearchIsAnError ==
  [][(/\ answered' # answered
      /\ answered'.op = "search"
      /\ (AskedForeignDb \/ dbs[answered'.id].status # "ready"))
       => /\ answered'.results = <<>>
          /\ answered'.code # 200]_vars

\* C26: a request on a job or database that does not exist or belongs to
\* another user is answered 404: the status and delete requests, and a create
\* of a database from such a job
C26_ForeignTargetIs404 ==
  /\ [][(/\ answered' # answered
          /\ \/ answered'.op \in {"job_status", "delete_job"} /\ AskedForeignJob
             \/ answered'.op \in {"database_status", "delete_database"} /\ AskedForeignDb)
           => answered'.code = 404]_vars
  /\ [][nextDb' = nextDb + 1 =>
           LET r == creqs'[nextDb]
           IN (r.job \notin DOMAIN jobs \/ jobs[r.job].user_id # r.user)
                => CreateResponse(r) \in {0, 404}]_vars

\* C29: a delete of a job or database that does not exist or belongs to
\* another user returns false and changes no row, snapshot or index
C29_RefusedDeleteChangesNothing ==
  [][(/\ answered' # answered
      /\ \/ answered'.op = "delete_job" /\ AskedForeignJob
         \/ answered'.op = "delete_database" /\ AskedForeignDb)
       => /\ ~answered'.ret
          /\ jobs' = jobs
          /\ snapshot' = snapshot
          /\ dbs' = dbs
          /\ indexes' = indexes]_vars

C29_Witness ==
  /\ answered.op = "delete_job"
  /\ answered.id = 1
  /\ answered.user = 2
  /\ ~answered.ret
  /\ 1 \in DOMAIN jobs
  /\ 1 \in DOMAIN snapshot

\* --- scrape jobs (SpecJob)

\* C27: only a request with one of the three crawl modes leaves a job row,
\* and a new row has status pending
C27_CreateJobValidatesMode ==
  /\ [](\A j \in DOMAIN jobs : jobs[j].scraping_type \in ScrapingTypes)
  /\ [][\A j \in DOMAIN jobs' \ DOMAIN jobs : jobs'[j].status = "pending"]_vars

\* C28: once a job has been deleted, its row and its snapshot are absent, at
\* the return of the delete and in every later state
C28_DeletedJobStaysDeleted ==
  [][\A j \in 1..(nextJob - 1) :
       (j \notin DOMAIN jobs')
         => /\ j \notin DOMAIN snapshot'
            /\ (j \notin DOMAIN jobs => j \notin DOMAIN jobs')]_vars

\* --- one build (SpecBuild)

\* record src comes before record other in the build: an earlier source, or
\* an earlier record of the same source
RecordBefore(src, other) ==
  src[1] < other[1] \/ (src[1] = other[1] /\ src[2] < other[2])

\* C30: the document list of a build goes through the records in snapshot
\* order and through the chunks of a record in chunk-index order; every upload
\* call takes the next documents of the list, 100 of them or the rest; ready
\* is written only when the whole list has been uploaded without a failure
C30_UploadsInOrderInBatches ==
  /\ [](\A d \in DOMAIN builds :
          LET docs == DocumentList(builds[d].documents)
          IN /\ docs # <<>> => docs[1].chunk_index = 0
             /\ \A k \in 1..(Len(docs) - 1) :
                   \/ /\ docs[k + 1].src = docs[k].src
                      /\ docs[k + 1].chunk_index = docs[k].chunk_index + 1
                   \/ /\ RecordBefore(docs[k].src, docs[k + 1].src)
                      /\ docs[k + 1].chunk_index = 0)
  /\ [][\A d \in DOMAIN builds :
          builds'[d].uploaded # builds[d].uploaded
            => /\ builds'[d].documents = builds[d].documents
               /\ builds'[d].uploaded - builds[d].uploaded \in 1..UploadBatchSize
               /\ \/ builds'[d].uploaded - builds[d].uploaded = UploadBatchSize
                  \/ builds'[d].uploaded = DocumentsLen(builds[d].documents)]_vars
  /\ [][\A d \in DOMAIN dbs :
          (dbs[d].status # "ready" /\ dbs'[d].status = "ready")
            => /\ builds[d].uploaded = DocumentsLen(builds[d].documents)
               /\ ~builds[d].upload_failed]_vars

C30_Witness ==
  \E d \in DOMAIN dbs :
    /\ dbs[d].status = "ready"
    /\ builds[d].uploaded > UploadBatchSize
    /\ Len(builds[d].documents) >= 2

\* --- database polls (SpecWatch)

\* C31: a status poll made while a build runs sees a row written by one
\* update: a poll that finds the database ready carries the document count the
\* build ended with, and every later poll of the same database by the same
\* user finds it ready with the same count
C31_PollSeesOneUpdate ==
  \A i \in DOMAIN polls :
    (polls[i].found /\ polls[i].status = "ready") =>
      /\ polls[i].db \in DOMAIN builds
      /\ builds[polls[i].db].pc = "done"
      /\ polls[i].document_count = builds[polls[i].db].document_count
      /\ \A k \in DOMAIN polls :
           (k > i /\ polls[k].db = polls[i].db /\ polls[k].user = polls[i].user) =>
             /\ polls[k].found
             /\ polls[k].status = "ready"
             /\ polls[k].document_count = polls[i].document_count

\* a database polled while building, then twice when ready with more than one
\* upload batch of documents
C31_Witness ==
  /\ Len(polls) = 3
  /\ polls[1].found /\ polls[1].status = "building"
  /\ polls[2].found /\ polls[2].status = "ready"
  /\ polls[2].document_count > UploadBatchSize
  /\ polls[3].found /\ polls[3].db = polls[2].db

\* --- document ids (SpecDb)

\* C32: the documents put together during one build have pairwise distinct
\* ids, for the single-source build and for the hybrid build of a scrape job
\* with any number of document jobs
C32_DocumentIdsDistinct ==
  \A d \in DOMAIN builds :
    LET all_documents == DocumentList(builds[d].documents)
    IN \A x, y \in DOMAIN all_documents :
         x # y => all_documents[x].id # all_documents[y].id

\* --- completed jobs (SpecPoll)

\* C33: a job is completed only with the snapshot of a successful crawl on
\* disk: the step that writes completed finds the snapshot already written and
\* leaves it alone, and the step in which the snapshot write fails writes
\* failed and never completed
C33_SnapshotBeforeCompleted ==
  [][ /\ \A j \in DOMAIN jobs' :
           jobs'[j].status = "completed" =>
             /\ j \in DOMAIN snapshot' /\ snapshot'[j] \in SnapContents
             /\ (j \in DOMAIN jobs /\ jobs[j].status # "completed") =>
                   (j \in DOMAIN snapshot /\ snapshot'[j] = snapshot[j])
      /\ \A e \in DOMAIN execs :
           (execs[e].pc = "save" /\ execs'[e].pc = "done" /\ execs[e].job \in DOMAIN jobs')
             => jobs'[execs[e].job].status = "failed" ]_vars

\* the job completed by one run after the snapshot write of another run failed
C33_Witness ==
  /\ 1 \in DOMAIN jobs /\ jobs[1].status = "completed"
  /\ 1 \in DOMAIN snapshot
  /\ \E e \in DOMAIN execs : execs[e].pc = "done" /\ execs[e].result = <<>>
  /\ \E e \in DOMAIN execs : execs[e].pc = "done" /\ execs[e].result # <<>>

\* --- concurrent creates (SpecRace)

\* C34: whichever way concurrent creates interleave, create_index is called
\* only while the backend holds fewer than IndexLimit indexes, and the backend
\* never holds more than IndexLimit
C34_CreateOnlyBelowLimit ==
  /\ [][\A d \in DOMAIN creqs :
          (creqs[d].pc = "create" /\ creqs'[d].pc # "create")
            => Cardinality(indexes) < IndexLimit]_vars
  /\ [](Cardinality(indexes) <= IndexLimit)

\* --- failing creates (SpecAbort)

\* C35: after a create has raised, at the validation of its sources, at the
\* creation of its index or at the insertion of its row, there is no row of
\* the new id and no index of it in the backend
C35_FailedCreateLeavesNothing ==
  \A d \in DOMAIN creqs :
    creqs[d].pc = "failed" => (d \notin DOMAIN dbs /\ IndexName(d) \notin indexes)

\* --- deep crawl, its end and its order (SpecCrawlFair, SpecOrder)

\* C36: the deep crawl returns, whatever links the pages hold (links back to
\* the seed and to the page itself among them), for every max_depth and
\* max_pages and whichever fetches fail
C36_DeepCrawlTerminates == <>(crawl.pc = "returned")

\* a crawl that returned with its queue emptied and pages to spare, after a
\* page that held links and a fetch that raised
C36_Witness ==
  /\ crawl.mode = "deep"
  /\ crawl.pc = "returned"
  /\ crawl.to_scrape = <<>>
  /\ crawl.max_depth >= 1
  /\ Len(crawl.fetched) = 2
  /\ crawl.fetched[1].outcome = "ok"
  /\ crawl.fetched[2].outcome = "raise"
  /\ Cardinality(crawl.scraped_urls) < crawl.max_pages

\* C37: the results are in breadth-first order: depths never decrease along
\* results, the seed is at depth 0, every other page is one deeper than a
\* page of results in whose links it was found, and max_depth_reached is the
\* largest depth in results, 0 when there is none
C37_ResultsBreadthFirst ==
  crawl.mode = "deep" =>
    /\ \A i, k \in 1..Len(crawl.results) :
          i <= k => crawl.results[i].depth <= crawl.results[k].depth
    /\ \A i \in 1..Len(crawl.fetched) :
          LET f == crawl.fetched[i]
          IN IF f.url = crawl.seed THEN f.depth = 0
             ELSE f.outcome = "ok" =>
                    \E k \in 1..Len(crawl.results) :
                      /\ crawl.results[k].url = f.via
                      /\ crawl.results[k].depth + 1 = f.depth
    /\ crawl.pc = "returned" /\ crawl.entered =>
          /\ \A i \in 1..Len(crawl.results) :
                crawl.results[i].depth <= crawl.max_depth_reached
          /\ IF crawl.results = <<>> THEN crawl.max_depth_reached = 0
             ELSE \E i \in 1..Len(crawl.results) :
                    crawl.results[i].depth = crawl.max_depth_reached

\* a returned crawl with pages of depths 0, 1, 1 and 2, the last one found on
\* the second page
C37_Witness ==
  /\ crawl.mode = "deep"
  /\ crawl.pc = "returned"
  /\ Len(crawl.results) = 4
  /\ crawl.results[1].depth = 0
  /\ crawl.results[2].depth = 1
  /\ crawl.results[3].depth = 1
  /\ crawl.results[4].depth = 2
  /\ crawl.fetched[4].via = crawl.results[2].url
  /\ crawl.max_depth_reached = 2

\* --- document upload (SpecUpload)

\* C38: an upload request that was rejected or failed, at the validation or
\* the upload of any file or at the processing, has left no blob it uploaded
\* in the container
C38_FailedUploadLeavesNoBlob ==
  (uploads.pc = "returned" /\ uploads.code # 200)
    => \A i \in 1..Len(uploads.uploaded_blobs) : uploads.uploaded_blobs[i] \notin uploads.blobs

\* C39: with 0 <= overlap < chunk_size, the k-th chunk (counted from 0) is the
\* window of chunk_size tokens that starts at token k * (chunk_size - overlap),
\* cut at the end of the input; every chunk before the last ends before the
\* end of the input and the last one of a finished call reaches it, so every
\* chunk ends after the chunk before it
C39_ChunkWindows ==
  (chunked.kind = "tokens" /\ chunked.pc \in {"loop", "returned"} /\ ~chunked.skipped)
    => LET n == Len(chunked.units)
           stride == chunked.chunk_size - chunked.overlap
           start(k) == (k - 1) * stride
           end(k) == Min(start(k) + chunked.chunk_size, n)
           count == Len(chunked.chunks)
       IN /\ \A k \in 1..count :
                /\ start(k) < n
                /\ chunked.chunks[k] = SubSeq(chunked.units, start(k) + 1, end(k))
          /\ \A k \in 1..(count - 1) : start(k) + chunked.chunk_size < n
          /\ \A k \in 2..count : end(k) > end(k - 1)
          /\ chunked.pc = "returned" => /\ count >= 1
                                        /\ start(count) + chunked.chunk_size >= n

\* a finished call whose range held one more start after the chunk that
\* reached the end
C39_Witness ==
  /\ chunked.kind = "tokens"
  /\ chunked.pc = "returned"
  /\ chunked.overlap > 0
  /\ Len(chunked.chunks) >= 3
  /\ Len(chunked.chunks) * (chunked.chunk_size - chunked.overlap) < Len(chunked.units)
====
